---- MODULE Spec2Model ----
(***************************************************************************)
(* Storage engine of smart-drive-manager: the composite-key B-Tree         *)
(* (data_structures/BTree.h), the string-key B+-Tree                       *)
(* (data_structures/BPlusTree.h) and the index facade                      *)
(* (core/IndexManager.h).                                                  *)
(*                                                                         *)
(* A tree object is a record: nodes (the node pages of its file, page i    *)
(* at byte offset i * PAGE_SIZE; page 0 is the metadata page, kept in      *)
(* disk_meta; exists tells whether the file exists), metadata_ (the        *)
(* in-memory metadata), cache_ (B-Tree only)                               *)
(* and the state of the fstream: is_open, readable (opened with ios::in),  *)
(* good (no failbit/badbit/eofbit).                                        *)
(*                                                                         *)
(* Fixed C arrays are functions over 0..capacity-1 and keep their stale    *)
(* slots, as the memory of the node does.  The union of values and         *)
(* child_offsets is two fields; the code only reads the member that the    *)
(* node_type selects.                                                      *)
(***************************************************************************)
EXTENDS Integers, Sequences, FiniteSets, TLC

VARIABLES
    focus,        \* the index object the behaviour exercises
    bt,           \* the BTree object (IndexManager::primary_index_) and its file
    bt_inserted,  \* history: the [key, value] of every insert that returned true
    bt_last,      \* history: the last public call on bt and what it returned
    bp,           \* a BPlusTree object (IndexManager::vehicle_plate_index_) and its file
    bp_inserted,  \* history: the [key, value] of every insert into bp
    bp_last,      \* history: the last public call on bp and what it returned
    ninserts,     \* number of chosen inserts the behaviour has made after its load
    im,           \* the IndexManager object: its four index objects and their files
    im_last,      \* history: the last public call on im and what it returned
    db,           \* the DatabaseManager object and its file
    db_last,      \* history: the last public call on db and what it returned
    th            \* the process around db: the worker threads inside a call on it, the
                  \* position of its stream, the id counters and caches of the managers

vars == << focus, bt, bt_inserted, bt_last, bp, bp_inserted, bp_last, ninserts,
           im, im_last, db, db_last, th >>

bt_vars == << bt, bt_inserted, bt_last >>
bp_vars == << bp, bp_inserted, bp_last >>
im_vars == << im, im_last >>
db_vars == << db, db_last >>

\* sizeof(BTreeNode) = sizeof(BTreeMetadata) = sizeof(BPlusNode) = 4096
PAGE_SIZE == 4096

\* largest value of the uint32 sequence field; only its place in the order
\* is used (TLC integers are 32-bit signed, so the top of the modelled
\* range stands for 4294967295)
UINT32_MAX == 2147483647

\* value of (uint64_t) tellp() when the stream has failed: tellp() is -1
TELLP_FAILED == -1

(***************************************************************************)
(* CompositeKey (BTree.h 15-60)                                            *)
(***************************************************************************)
CompositeKey(type, id, ts, seq) ==
    [entity_type |-> type, primary_id |-> id, timestamp |-> ts, sequence |-> seq]

CompositeKey_new == CompositeKey(0, 0, 0, 0)

CK_lt(a, b) ==
    IF a.entity_type # b.entity_type THEN a.entity_type < b.entity_type
    ELSE IF a.primary_id # b.primary_id THEN a.primary_id < b.primary_id
    ELSE IF a.timestamp # b.timestamp THEN a.timestamp < b.timestamp
    ELSE a.sequence < b.sequence

CK_eq(a, b) ==
    /\ a.entity_type = b.entity_type
    /\ a.primary_id = b.primary_id
    /\ a.timestamp = b.timestamp
    /\ a.sequence = b.sequence

CK_le(a, b) == CK_lt(a, b) \/ CK_eq(a, b)

CK_gt(a, b) == ~CK_le(a, b)

CK_ge(a, b) == ~CK_lt(a, b)

(***************************************************************************)
(* BTreeValue, BTreeNode, BTreeMetadata (BTree.h 62-147)                   *)
(***************************************************************************)
BTreeValue(offset, fid, size) ==
    [record_offset |-> offset, file_id |-> fid, record_size |-> size]

BTreeValue_new == BTreeValue(0, 0, 0)

BTreeNode_MAX_KEYS == 9
BTreeNode_MIN_KEYS == 4
BTreeNode_MAX_CHILDREN == 10

BTreeNode_new ==
    [node_type |-> 1, key_count |-> 0, parent_offset |-> 0, level |-> 0,
     keys |-> [i \in 0..(BTreeNode_MAX_KEYS - 1) |-> CompositeKey_new],
     values |-> [i \in 0..(BTreeNode_MAX_CHILDREN - 1) |-> BTreeValue_new],
     child_offsets |-> [i \in 0..(BTreeNode_MAX_CHILDREN - 1) |-> 0],
     next_leaf |-> 0, prev_leaf |-> 0]

BTreeNode_is_leaf(node) == node.node_type = 1

\* a test that lets a node of MAX_KEYS keys pass as one with room
BTreeNode_is_full_late(node) == node.key_count > BTreeNode_MAX_KEYS

BTreeNode_is_full(node) == node.key_count >= BTreeNode_MAX_KEYS

BTreeMetadata_new ==
    [magic |-> "BTREE001", root_offset |-> 0, total_records |-> 0, tree_height |-> 0]

\* BTree::BTree: no file handle open, default metadata, empty cache.
\* exists: the file exists (its metadata page is disk_meta).
\* crashed: a recursion of the object did not end and the stack ran out.
\* calls: history, the calls of insert_non_full and split_child that the
\* last insert made, in their order.
BTree_new ==
    [exists |-> FALSE, nodes |-> << >>, disk_meta |-> BTreeMetadata_new,
     metadata_ |-> BTreeMetadata_new,
     cache_ |-> << >>, is_open |-> FALSE, readable |-> FALSE, good |-> TRUE,
     crashed |-> FALSE, calls |-> << >>]

\* the history of a call of insert_non_full on a node of key_count keys
InsertNonFullCall(key_count) ==
    [fn |-> "insert_non_full", key_count |-> key_count, parent |-> 0, ok |-> TRUE]

\* the history of a call of split_child: the key_count of the child it read
\* (ok: the read succeeded) and that of the parent it was given
SplitChildCall(child, parent, ok) ==
    [fn |-> "split_child", key_count |-> child.key_count, parent |-> parent.key_count,
     ok |-> ok]

\* the tree object with the call added to the history of its insert
Called(t, call) == [t EXCEPT !.calls = Append(@, call)]

\* a recursive call on a node that is on the call stack already: the calls
\* between the two changed nothing the recursion reads, so it never ends
BT_stack_overflow(t) == [t EXCEPT !.crashed = TRUE]

CACHE_SIZE == 256

(***************************************************************************)
(* The file of a tree                                                      *)
(***************************************************************************)
\* tellp() after seekp(0, ios::end): the length of the file
FileSize(t) == PAGE_SIZE * (1 + Len(t.nodes))

\* offset designates a whole node page of the file
IsNodePage(t, offset) ==
    /\ offset >= PAGE_SIZE
    /\ offset % PAGE_SIZE = 0
    /\ offset < FileSize(t)

NodeAt(t, offset) == t.nodes[offset \div PAGE_SIZE]

\* seekp(offset); write(node): in place, or appended when offset is the end
\* of the file.  A failed stream writes nothing and stays failed.
FileWriteNode(t, offset, node) ==
    IF t.is_open /\ t.good /\ IsNodePage(t, offset)
    THEN [t EXCEPT !.nodes[offset \div PAGE_SIZE] = node]
    ELSE IF t.is_open /\ t.good /\ offset = FileSize(t)
    THEN [t EXCEPT !.nodes = Append(@, node)]
    ELSE [t EXCEPT !.good = FALSE]

\* seekg(offset); read(node) succeeds only on a good stream opened with
\* ios::in, inside the file
FileCanRead(t, offset) ==
    t.is_open /\ t.readable /\ t.good /\ IsNodePage(t, offset)

(***************************************************************************)
(* BTree: node cache and node I/O (BTree.h 166-244)                        *)
(***************************************************************************)
RECURSIVE BT_write_node(_, _, _)
RECURSIVE BT_add_to_cache(_, _, _, _)
RECURSIVE BT_update_cache(_, _, _, _)

\* least element of a set of positive indices, 0 for the empty set
FirstIndex(S) == IF S = {} THEN 0 ELSE CHOOSE i \in S : \A j \in S : i <= j

\* index of the first cache entry for offset, 0 if none
BT_cache_find(t, offset) ==
    FirstIndex({i \in 1..Len(t.cache_) : t.cache_[i].offset = offset})

\* add_to_cache erasing the entry pushed last
BT_cache_evict_newest(t) == [t EXCEPT !.cache_ = SubSeq(@, 1, Len(@) - 1)]

\* add_to_cache that erases nothing
BT_add_to_cache_unbounded(t, offset, node, dirty) ==
    [t EXCEPT !.cache_ = Append(@, [offset |-> offset, node |-> node, dirty |-> dirty])]

\* add_to_cache on a full cache: the first entry is written back when dirty,
\* and erased
BT_cache_evict(t) ==
    [(IF t.cache_[1].dirty
      THEN BT_write_node(t, t.cache_[1].offset, t.cache_[1].node)
      ELSE t) EXCEPT !.cache_ = Tail(@)]

BT_add_to_cache(t, offset, node, dirty) ==
    [(IF Len(t.cache_) >= CACHE_SIZE THEN BT_cache_evict(t) ELSE t)
       EXCEPT !.cache_ = Append(@, [offset |-> offset, node |-> node, dirty |-> dirty])]

\* update_cache, i being the index of the first entry for offset (0: none)
BT_update_cache_at(t, offset, node, dirty, i) ==
    IF i # 0
    THEN [t EXCEPT !.cache_[i].node = node, !.cache_[i].dirty = dirty]
    ELSE BT_add_to_cache(t, offset, node, dirty)

BT_update_cache(t, offset, node, dirty) ==
    BT_update_cache_at(t, offset, node, dirty, BT_cache_find(t, offset))

\* the bool result of write_node is ignored by every caller
BT_write_node(t, offset, node) ==
    IF offset = 0 THEN t
    ELSE BT_update_cache(FileWriteNode(t, offset, node), offset, node, FALSE)

\* read_node, i being the index of the first cache entry for offset (0: none)
BT_read_node_at(t, offset, node, i) ==
    IF i # 0 THEN [ok |-> TRUE, node |-> t.cache_[i].node, t |-> t]
    ELSE IF FileCanRead(t, offset)
    THEN [ok |-> TRUE, node |-> NodeAt(t, offset),
          t |-> BT_add_to_cache(t, offset, NodeAt(t, offset), FALSE)]
    ELSE [ok |-> FALSE, node |-> node, t |-> [t EXCEPT !.good = FALSE]]

\* node is the caller's variable: it keeps its value when the read fails
BT_read_node(t, offset, node) ==
    IF offset = 0 THEN [ok |-> FALSE, node |-> node, t |-> t]
    ELSE BT_read_node_at(t, offset, node, BT_cache_find(t, offset))

BT_allocate_node(t) ==
    IF t.is_open /\ t.good
    THEN [offset |-> FileSize(t), t |-> FileWriteNode(t, FileSize(t), BTreeNode_new)]
    ELSE [offset |-> TELLP_FAILED, t |-> [t EXCEPT !.good = FALSE]]

\* the while loop of find_key_position: first pos with !(keys[pos] < key)
BT_find_key_position(node, key) ==
    CHOOSE pos \in 0..node.key_count :
        /\ \A q \in 0..(pos - 1) : CK_lt(node.keys[q], key)
        /\ (pos = node.key_count \/ ~CK_lt(node.keys[pos], key))

\* the while loops of insert_non_full, from pos = key_count - 1 downwards:
\* the pos at which "pos >= 0 && keys[pos] > key" first fails
BT_scan_down(node, key) ==
    CHOOSE pos \in (0 - 1)..(node.key_count - 1) :
        /\ \A q \in (pos + 1)..(node.key_count - 1) : CK_gt(node.keys[q], key)
        /\ (pos = 0 - 1 \/ ~CK_gt(node.keys[pos], key))

(***************************************************************************)
(* BTree::split_child (BTree.h 258-317).  parent is passed by reference:   *)
(* the result carries the tree and the caller's parent.                    *)
(***************************************************************************)
\* new_node (lines 267-298): the keys above the median, with their values
\* and the place of child in the leaf chain, or with their children
BT_split_new_node(child, child_offset) ==
    [BTreeNode_new EXCEPT
       !.node_type = child.node_type,
       !.level = child.level,
       !.key_count = BTreeNode_MIN_KEYS,
       !.keys = [i \in 0..(BTreeNode_MAX_KEYS - 1) |->
                   IF i < BTreeNode_MIN_KEYS
                   THEN child.keys[BTreeNode_MIN_KEYS + 1 + i] ELSE @[i]],
       !.values = [i \in 0..(BTreeNode_MAX_CHILDREN - 1) |->
                     IF BTreeNode_is_leaf(child) /\ i < BTreeNode_MIN_KEYS
                     THEN child.values[BTreeNode_MIN_KEYS + 1 + i] ELSE @[i]],
       !.next_leaf = IF BTreeNode_is_leaf(child) THEN child.next_leaf ELSE @,
       !.prev_leaf = IF BTreeNode_is_leaf(child) THEN child_offset ELSE @,
       !.child_offsets = [i \in 0..(BTreeNode_MAX_CHILDREN - 1) |->
                            IF ~BTreeNode_is_leaf(child) /\ i <= BTreeNode_MIN_KEYS
                            THEN child.child_offsets[BTreeNode_MIN_KEYS + 1 + i]
                            ELSE @[i]]]

\* child after the split (lines 289, 300)
BT_split_old_node(child, new_node_offset) ==
    [child EXCEPT
       !.next_leaf = IF BTreeNode_is_leaf(child) THEN new_node_offset ELSE @,
       !.key_count = BTreeNode_MIN_KEYS]

\* parent after the split (lines 303-311): keys and children above
\* child_index move up by one, the median and the new node come in
BT_split_parent(parent, child, child_index, new_node_offset) ==
    [parent EXCEPT
       !.keys = [i \in 0..(BTreeNode_MAX_KEYS - 1) |->
                   IF i = child_index THEN child.keys[BTreeNode_MIN_KEYS]
                   ELSE IF i > child_index /\ i <= parent.key_count
                   THEN parent.keys[i - 1] ELSE @[i]],
       !.child_offsets = [i \in 0..(BTreeNode_MAX_CHILDREN - 1) |->
                   IF i = child_index + 1 THEN new_node_offset
                   ELSE IF i > child_index + 1 /\ i <= parent.key_count + 1
                   THEN parent.child_offsets[i - 1] ELSE @[i]],
       !.key_count = @ + 1]

\* lines 266-316, a being the result of allocate_node
BT_split_child_alloc(a, parent_offset, parent, child_index, child, child_offset) ==
    [t |-> BT_write_node(
             BT_write_node(
               BT_write_node(a.t, child_offset, BT_split_old_node(child, a.offset)),
               a.offset, BT_split_new_node(child, child_offset)),
             parent_offset, BT_split_parent(parent, child, child_index, a.offset)),
     parent |-> BT_split_parent(parent, child, child_index, a.offset)]

\* lines 262-316, r being the result of read_node(child_offset, child)
BT_split_child_read(r, parent_offset, parent, child_index) ==
    IF ~r.ok
    THEN [t |-> Called(r.t, SplitChildCall(r.node, parent, FALSE)), parent |-> parent]
    ELSE BT_split_child_alloc(
            BT_allocate_node(Called(r.t, SplitChildCall(r.node, parent, TRUE))),
            parent_offset, parent, child_index,
            r.node, parent.child_offsets[child_index])

BT_split_child(t, parent_offset, parent, child_index) ==
    BT_split_child_read(BT_read_node(t, parent.child_offsets[child_index], BTreeNode_new),
                        parent_offset, parent, child_index)

(***************************************************************************)
(* BTree::insert_non_full (BTree.h 320-366)                                *)
(***************************************************************************)
\* lines 328-337: the leaf with key and value put in after slot pos
BT_leaf_put(node, key, value, pos) ==
    [node EXCEPT
       !.keys = [i \in 0..(BTreeNode_MAX_KEYS - 1) |->
                   IF i = pos + 1 THEN key
                   ELSE IF i > pos + 1 /\ i <= node.key_count
                   THEN node.keys[i - 1] ELSE @[i]],
       !.values = [i \in 0..(BTreeNode_MAX_CHILDREN - 1) |->
                   IF i = pos + 1 THEN value
                   ELSE IF i > pos + 1 /\ i <= node.key_count
                   THEN node.values[i - 1] ELSE @[i]],
       !.key_count = @ + 1]

\* stack: the offsets of the nodes whose insert_non_full calls are active
RECURSIVE BT_insert_non_full(_, _, _, _, _, _)
RECURSIVE BT_descend_read(_, _, _, _, _, _, _)
RECURSIVE BT_descend_split(_, _, _, _, _, _)
RECURSIVE BT_descend_into(_, _, _, _, _)

\* line 364, r being the result of the last read_node into child
BT_descend_into(r, child_offset, key, value, stack) ==
    BT_insert_non_full(r.t, child_offset, r.node, key, value, stack)

\* lines 357-364, s being the result of split_child and child the full child
BT_descend_split(s, child, pos, key, value, stack) ==
    IF CK_lt(s.parent.keys[pos], key)
    THEN BT_descend_into(BT_read_node(s.t, s.parent.child_offsets[pos + 1], child),
                         s.parent.child_offsets[pos + 1], key, value, stack)
    ELSE BT_descend_into(BT_read_node(s.t, s.parent.child_offsets[pos], child),
                         s.parent.child_offsets[pos], key, value, stack)

\* lines 354-364, r being the result of read_node(child_offset, child)
BT_descend_read(r, node_offset, node, pos, key, value, stack) ==
    IF BTreeNode_is_full(r.node)
    THEN BT_descend_split(BT_split_child(r.t, node_offset, node, pos), r.node,
                          pos, key, value, stack)
    ELSE BT_descend_into(r, node.child_offsets[pos], key, value, stack)

BT_insert_non_full(t, node_offset, node, key, value, stack) ==
    IF node_offset \in stack THEN BT_stack_overflow(t)
    ELSE IF BTreeNode_is_leaf(node)
    THEN BT_write_node(Called(t, InsertNonFullCall(node.key_count)), node_offset,
                       BT_leaf_put(node, key, value, BT_scan_down(node, key)))
    ELSE BT_descend_read(
             BT_read_node(Called(t, InsertNonFullCall(node.key_count)),
                          node.child_offsets[BT_scan_down(node, key) + 1], BTreeNode_new),
             node_offset, node, BT_scan_down(node, key) + 1, key, value,
             stack \cup {node_offset})

(***************************************************************************)
(* BTree::insert (BTree.h 585-617)                                         *)
(***************************************************************************)
\* metadata_.total_records++
BT_count_record(t) == [t EXCEPT !.metadata_.total_records = @ + 1]

\* lines 604-605
BT_set_root(t, new_root_offset) ==
    [t EXCEPT !.metadata_.root_offset = new_root_offset,
              !.metadata_.tree_height = @ + 1]

\* lines 597-600
BT_new_root(root, root_offset) ==
    [BTreeNode_new EXCEPT !.node_type = 0,
                          !.level = root.level + 1,
                          !.child_offsets[0] = root_offset]

\* lines 604-608, s being the result of split_child(new_root_offset, new_root, 0)
BT_insert_split(s, new_root_offset, key, value) ==
    BT_descend_into(BT_read_node(BT_set_root(s.t, new_root_offset), new_root_offset, s.parent),
                    new_root_offset, key, value, {})

\* lines 596-608, a being the result of allocate_node
BT_insert_alloc(a, root, root_offset, key, value) ==
    BT_insert_split(BT_split_child(a.t, a.offset, BT_new_root(root, root_offset), 0),
                    a.offset, key, value)

\* lines 593-616, r being the result of read_node(root_offset, root)
BT_insert_read(r, root_offset, key, value) ==
    IF BTreeNode_is_full(r.node)
    THEN BT_insert_alloc(BT_allocate_node(r.t), r.node, root_offset, key, value)
    ELSE BT_insert_non_full(r.t, root_offset, r.node, key, value, {})

BT_insert(t, key, value) ==
    IF t.metadata_.root_offset = 0 THEN [ret |-> FALSE, t |-> t]
    ELSE [ret |-> TRUE,
          t |-> BT_count_record(
                  BT_insert_read(BT_read_node([t EXCEPT !.calls = << >>],
                                              t.metadata_.root_offset, BTreeNode_new),
                                 t.metadata_.root_offset, key, value))]

(***************************************************************************)
(* BTree::search_recursive, BTree::search (BTree.h 369-403, 619-622).      *)
(* result is the caller's variable; reads go through the cache, so the     *)
(* tree object changes.                                                    *)
(***************************************************************************)
\* stack: the offsets of the nodes whose search_recursive calls are active
RECURSIVE BT_search_recursive(_, _, _, _, _)
RECURSIVE BT_search_node(_, _, _, _, _)
RECURSIVE BT_search_read(_, _, _, _)

\* lines 378-402, r being the result of read_node and pos of find_key_position
BT_search_node(r, pos, key, result, stack) ==
    IF pos < r.node.key_count /\ CK_eq(r.node.keys[pos], key)
    THEN IF BTreeNode_is_leaf(r.node)
         THEN [found |-> TRUE, result |-> r.node.values[pos], t |-> r.t]
         ELSE BT_search_recursive(r.t, r.node.child_offsets[pos + 1], key, result, stack)
    ELSE IF BTreeNode_is_leaf(r.node)
    THEN [found |-> FALSE, result |-> result, t |-> r.t]
    ELSE BT_search_recursive(r.t, r.node.child_offsets[pos], key, result, stack)

\* lines 375-402, r being the result of read_node
BT_search_read(r, key, result, stack) ==
    IF ~r.ok THEN [found |-> FALSE, result |-> result, t |-> r.t]
    ELSE BT_search_node(r, BT_find_key_position(r.node, key), key, result, stack)

BT_search_recursive(t, node_offset, key, result, stack) ==
    IF node_offset = 0 THEN [found |-> FALSE, result |-> result, t |-> t]
    ELSE IF node_offset \in stack
    THEN [found |-> FALSE, result |-> result, t |-> BT_stack_overflow(t)]
    ELSE BT_search_read(BT_read_node(t, node_offset, BTreeNode_new), key, result,
                        stack \cup {node_offset})

BT_search(t, key, result) ==
    BT_search_recursive(t, t.metadata_.root_offset, key, result, {})

(***************************************************************************)
(* BTree::range_query_recursive, BTree::range_query (BTree.h 406-446,      *)
(* 624-631).  results is a sequence of [key, value] pairs.                 *)
(***************************************************************************)
\* stack: the offsets of the nodes whose range_query_recursive calls are
\* active
RECURSIVE BT_range_query_recursive(_, _, _, _, _, _)
RECURSIVE BT_range_children(_, _, _, _, _, _, _)
RECURSIVE BT_range_child_done(_, _, _, _, _, _)
RECURSIVE BT_range_read(_, _, _, _, _)
RECURSIVE BT_range_leaf(_, _, _, _, _)

\* lines 442-443 and the next round of the loop, c being the result of the
\* call for child i
BT_range_child_done(c, node, i, start_key, end_key, stack) ==
    IF c.t.crashed THEN c
    ELSE IF i < node.key_count /\ CK_gt(node.keys[i], end_key) THEN c
    ELSE BT_range_children(c.t, node, i + 1, start_key, end_key, c.results, stack)

\* the for loop over the children i..key_count of an internal node
BT_range_children(t, node, i, start_key, end_key, results, stack) ==
    IF i > node.key_count THEN [t |-> t, results |-> results]
    ELSE BT_range_child_done(
             BT_range_query_recursive(t, node.child_offsets[i], start_key, end_key,
                                      results, stack),
             node, i, start_key, end_key, stack)

\* lines 421-427: the entries of a leaf within the bounds, from slot i on
RECURSIVE BT_leaf_matches(_, _, _, _)
BT_leaf_matches(node, i, start_key, end_key) ==
    IF i >= node.key_count THEN << >>
    ELSE (IF CK_ge(node.keys[i], start_key) /\ CK_le(node.keys[i], end_key)
          THEN << [key |-> node.keys[i], value |-> node.values[i]] >>
          ELSE << >>) \o BT_leaf_matches(node, i + 1, start_key, end_key)

\* lines 430-433, results holding the matches of the leaf r.node already
BT_range_leaf(r, start_key, end_key, results, stack) ==
    IF /\ r.node.key_count > 0
       /\ CK_lt(r.node.keys[r.node.key_count - 1], end_key)
       /\ r.node.next_leaf # 0
    THEN BT_range_query_recursive(r.t, r.node.next_leaf, start_key, end_key,
                                  results, stack)
    ELSE [t |-> r.t, results |-> results]

\* lines 415-445, r being the result of read_node
BT_range_read(r, start_key, end_key, results, stack) ==
    IF ~r.ok THEN [t |-> r.t, results |-> results]
    ELSE IF BTreeNode_is_leaf(r.node)
    THEN BT_range_leaf(r, start_key, end_key,
                       results \o BT_leaf_matches(r.node, 0, start_key, end_key), stack)
    ELSE BT_range_children(r.t, r.node, BT_find_key_position(r.node, start_key),
                           start_key, end_key, results, stack)

BT_range_query_recursive(t, node_offset, start_key, end_key, results, stack) ==
    IF node_offset = 0 THEN [t |-> t, results |-> results]
    ELSE IF node_offset \in stack
    THEN [t |-> BT_stack_overflow(t), results |-> results]
    ELSE BT_range_read(BT_read_node(t, node_offset, BTreeNode_new),
                       start_key, end_key, results, stack \cup {node_offset})

BT_range_query(t, start_key, end_key) ==
    BT_range_query_recursive(t, t.metadata_.root_offset, start_key, end_key, << >>, {})

(***************************************************************************)
(* BTree::create, BTree::open, BTree::close (BTree.h 459-582).             *)
(* fs_ok: the file system lets the file be opened.                         *)
(***************************************************************************)
BT_create(t, fs_ok) ==
    IF ~fs_ok
    THEN [ret |-> FALSE, t |-> [t EXCEPT !.is_open = FALSE, !.good = FALSE]]
    ELSE [ret |-> TRUE,
          t |-> [t EXCEPT
                   !.exists = TRUE,
                   !.is_open = TRUE, !.readable = FALSE, !.good = TRUE,
                   !.metadata_ = [BTreeMetadata_new EXCEPT !.root_offset = PAGE_SIZE],
                   !.disk_meta = [BTreeMetadata_new EXCEPT !.root_offset = PAGE_SIZE],
                   !.nodes = << BTreeNode_new >>]]

\* lines 529-537 and 551-559: the test of the magic tag after the metadata
\* was read
BT_open_verify(t) ==
    IF t.metadata_.magic # "BTREE001"
    THEN [ret |-> FALSE, t |-> [t EXCEPT !.is_open = FALSE]]
    ELSE [ret |-> TRUE, t |-> t]

BT_open(t) ==
    IF t.is_open
    THEN BT_open_verify(IF t.readable /\ t.good
                        THEN [t EXCEPT !.metadata_ = t.disk_meta]
                        ELSE [t EXCEPT !.good = FALSE])
    ELSE IF ~t.exists
    THEN [ret |-> FALSE, t |-> [t EXCEPT !.good = FALSE]]
    ELSE BT_open_verify([t EXCEPT !.is_open = TRUE, !.readable = TRUE, !.good = TRUE,
                                  !.metadata_ = t.disk_meta])

\* the write_node of each dirty cache entry, from entry i on
RECURSIVE BT_flush_dirty(_, _)
BT_flush_dirty(t, i) ==
    IF i > Len(t.cache_) THEN t
    ELSE BT_flush_dirty(IF t.cache_[i].dirty
                        THEN BT_write_node(t, t.cache_[i].offset, t.cache_[i].node)
                        ELSE t, i + 1)

\* lines 572-581, the dirty entries written
BT_close_file(t) ==
    IF t.is_open
    THEN [t EXCEPT !.cache_ = << >>,
                   !.disk_meta = IF t.good THEN t.metadata_ ELSE @,
                   !.is_open = FALSE]
    ELSE [t EXCEPT !.cache_ = << >>]

BT_close(t) == BT_close_file(BT_flush_dirty(t, 1))

\* an index file created by an earlier create() and close(), opened now
BT_opened == BT_open(BT_close(BT_create(BTree_new, TRUE).t)).t

(***************************************************************************)
(* IndexManager: the primary index (IndexManager.h 154-202)                *)
(***************************************************************************)
IM_insert_primary(t, entity_type, entity_id, timestamp, record_offset) ==
    BT_insert(t, CompositeKey(entity_type, entity_id, timestamp, 0),
              BTreeValue(record_offset, 1, 1024))

\* lines 175-181, s being the result of search; record_offset is the
\* caller's variable, left alone when the key is not found
IM_search_primary_result(s, record_offset) ==
    [found |-> s.found,
     record_offset |-> IF s.found THEN s.result.record_offset ELSE record_offset,
     t |-> s.t]

IM_search_primary(t, entity_type, entity_id, timestamp, record_offset) ==
    IM_search_primary_result(
        BT_search(t, CompositeKey(entity_type, entity_id, timestamp, 0), BTreeValue_new),
        record_offset)

\* lines 196-201, q being the result of range_query
IM_range_offsets(q) ==
    [offsets |-> [i \in 1..Len(q.results) |-> q.results[i].value.record_offset],
     t |-> q.t]

IM_range_query_primary(t, entity_type, entity_id, start_time, end_time) ==
    IM_range_offsets(
        BT_range_query(t, CompositeKey(entity_type, entity_id, start_time, 0),
                       CompositeKey(entity_type, entity_id, end_time, UINT32_MAX)))

(***************************************************************************)
(* Workload of the primary index.  Keys are taken from an enumeration      *)
(* ... < KeyAt(n) < KeyAt(n + 1) < ... of composite keys in which entity   *)
(* kind, id and timestamp all vary; every insert stores its own record     *)
(* offset.  A behaviour first loads keys in ascending or in descending     *)
(* order, starting with KeyAt(KeyBase), and then makes a few inserts of    *)
(* keys chosen around the loaded ones, copies of loaded keys included.     *)
(***************************************************************************)
\* keys of a load
MaxLoad == 80
\* inserts after the load
MaxInserts == 3
\* times one key may be inserted
MaxCopies == 2
\* ids per entity kind and timestamps per id in the enumeration of keys
NumIds == 4
NumStamps == 3

KeyBase == MaxLoad + MaxInserts
KeyTop == KeyBase + MaxLoad + MaxInserts

\* the load sizes after which the chosen inserts may start: the empty tree,
\* a full root leaf, the tree after the first split, a full second leaf,
\* a full internal root, the tree after the split of an internal root
BT_FreeFrom == {0, 9, 10, 14, 50, 51}

KeyAt(n) ==
    CompositeKey(1 + (n \div (NumIds * NumStamps)),
                 1 + ((n % (NumIds * NumStamps)) \div NumStamps),
                 1 + (n % NumStamps), 0)

\* the n with key = KeyAt(n)
KeyIndex(key) ==
    (key.entity_type - 1) * (NumIds * NumStamps)
        + (key.primary_id - 1) * NumStamps + (key.timestamp - 1)

\* the record offset stored by the c-th insert of KeyAt(n)
RecordOffset(n, c) == 1024 * (n * MaxCopies + c)

\* number of times key was inserted
BT_copies(inserted, key) == Cardinality({e \in inserted : e.key = key})

BT_indices(inserted) == {KeyIndex(e.key) : e \in inserted}

SetMin(S) == CHOOSE x \in S : \A y \in S : x <= y
SetMax(S) == CHOOSE x \in S : \A y \in S : x >= y

\* the keys a chosen insert may carry, idx being the keys inserted so far:
\* the next key above or below them, or one more copy of the lowest key, of
\* the highest key, or of the key that is the median of the first leaf split
\* of the load
BT_next_of(inserted, idx) ==
    IF idx = {} THEN {KeyBase}
    ELSE {n \in {SetMin(idx) - 1, SetMax(idx) + 1} \cup
                ({SetMin(idx), SetMax(idx), KeyBase + BTreeNode_MIN_KEYS,
                  KeyBase - BTreeNode_MIN_KEYS} \cap idx) :
            n \in 0..KeyTop /\ BT_copies(inserted, KeyAt(n)) < MaxCopies}

BT_next_keys(inserted) == BT_next_of(inserted, BT_indices(inserted))

NoCall == [op |-> "none", key |-> CompositeKey_new, key2 |-> CompositeKey_new,
           ret |-> FALSE, value |-> BTreeValue_new, results |-> << >>]

\* the call did not return: the process ended in it
BT_Crashed(key) == [NoCall EXCEPT !.op = "crashed", !.key = key]

\* the history of an insert_primary that carried key and value, ins being
\* what it gave
BTInsertDone(key, value, ins) ==
    /\ bt' = ins.t
    /\ bt_inserted' = IF ins.ret /\ ~ins.t.crashed
                      THEN bt_inserted \cup {[key |-> key, value |-> value]}
                      ELSE bt_inserted
    /\ bt_last' = IF ins.t.crashed THEN BT_Crashed(key)
                  ELSE [NoCall EXCEPT !.op = "insert", !.key = key, !.ret = ins.ret,
                                      !.value = value]

BTInsertRecord(key, record_offset) ==
    BTInsertDone(key, BTreeValue(record_offset, 1, 1024),
                 IM_insert_primary(bt, key.entity_type, key.primary_id,
                                   key.timestamp, record_offset))

\* IndexManager::insert_primary of KeyAt(n), the history variables included
BTInsertKey(n) ==
    BTInsertRecord(KeyAt(n), RecordOffset(n, BT_copies(bt_inserted, KeyAt(n))))

\* a load of at most cap keys: the next key above the keys loaded so far
BT_load_up(cap) ==
    /\ focus = "primary"
    /\ ~bt.crashed
    /\ Cardinality(bt_inserted) < cap
    /\ bt_inserted # {} => SetMin(BT_indices(bt_inserted)) = KeyBase
    /\ BTInsertKey(KeyBase + Cardinality(bt_inserted))

\* a load of at most cap keys: the next key below the keys loaded so far
BT_load_down(cap) ==
    /\ focus = "primary"
    /\ ~bt.crashed
    /\ Cardinality(bt_inserted) < cap
    /\ bt_inserted # {}
    /\ SetMax(BT_indices(bt_inserted)) = KeyBase
    /\ BTInsertKey(KeyBase - Cardinality(bt_inserted))

BTLoadUp ==
    /\ ninserts = 0
    /\ BT_load_up(MaxLoad)
    /\ UNCHANGED << focus, ninserts, bp_vars, im_vars, db_vars, th >>

BTLoadDown ==
    /\ ninserts = 0
    /\ BT_load_down(MaxLoad)
    /\ UNCHANGED << focus, ninserts, bp_vars, im_vars, db_vars, th >>

\* a chosen insert
BTInsert ==
    /\ focus = "primary"
    /\ ~bt.crashed
    /\ ninserts < MaxInserts
    /\ ninserts = 0 => Cardinality(bt_inserted) \in BT_FreeFrom
    /\ \E n \in BT_next_keys(bt_inserted) : BTInsertKey(n)
    /\ ninserts' = ninserts + 1
    /\ UNCHANGED << focus, bp_vars, im_vars, db_vars, th >>

\* the keys a search may carry, idx being the keys inserted so far: the
\* lowest key inserted, the two keys that may be the median of the first
\* leaf split, and the key above all
BT_search_of(idx) ==
    IF idx = {} THEN {KeyBase}
    ELSE {SetMin(idx), KeyBase + BTreeNode_MIN_KEYS, KeyBase - BTreeNode_MIN_KEYS,
          SetMax(idx) + 1} \cap (0..KeyTop)

BT_search_keys(inserted) == BT_search_of(BT_indices(inserted))

\* the bounds a range query may carry, idx being the keys inserted so far:
\* all of them, and the three keys from the upper median on
BT_bounds_of(idx) ==
    IF idx = {} THEN {<< KeyBase, KeyBase >>}
    ELSE {<< SetMin(idx), SetMax(idx) >>,
          << KeyBase + BTreeNode_MIN_KEYS, KeyBase + BTreeNode_MIN_KEYS + 2 >>}

BT_range_bounds(inserted) == BT_bounds_of(BT_indices(inserted))

\* the history of a search_primary for key, s being what it gave
BTSearchDone(key, s) ==
    /\ bt' = s.t
    /\ bt_last' = IF s.t.crashed THEN BT_Crashed(key)
                  ELSE [NoCall EXCEPT !.op = "search", !.key = key, !.ret = s.found,
                                      !.value = BTreeValue(s.record_offset, 1, 1024)]

BTSearchKey(key) ==
    BTSearchDone(key, IM_search_primary(bt, key.entity_type, key.primary_id,
                                        key.timestamp, 0))

\* IndexManager::search_primary
BT_search_any ==
    /\ focus = "primary"
    /\ ~bt.crashed
    /\ \E n \in BT_search_keys(bt_inserted) : BTSearchKey(KeyAt(n))

BTSearch ==
    /\ BT_search_any
    /\ UNCHANGED << focus, bt_inserted, ninserts, bp_vars, im_vars, db_vars, th >>

\* the history of a range_query from start_key to end_key, q being what it
\* gave
BTRangeDone(start_key, end_key, q) ==
    /\ bt' = q.t
    /\ bt_last' = IF q.t.crashed THEN BT_Crashed(start_key)
                  ELSE [NoCall EXCEPT !.op = "range_query", !.key = start_key,
                                      !.key2 = end_key, !.results = q.results]

\* BTree::range_query
BTRangeQuery ==
    /\ focus = "primary"
    /\ ~bt.crashed
    /\ \E b \in BT_range_bounds(bt_inserted) :
         BTRangeDone(KeyAt(b[1]), KeyAt(b[2]), BT_range_query(bt, KeyAt(b[1]), KeyAt(b[2])))
    /\ UNCHANGED << focus, bt_inserted, ninserts, bp_vars, im_vars, db_vars, th >>

\* the entities whose records a range_query_primary may ask for: those of
\* the lowest key inserted and of the keys that are the first and the third
\* median of the leaf splits of an ascending load
BT_range_entities(inserted) ==
    IF inserted = {} THEN {KeyBase}
    ELSE {SetMin(BT_indices(inserted)), KeyBase + BTreeNode_MIN_KEYS,
          KeyBase + 3 * BTreeNode_MIN_KEYS + 2}

\* the history of a range_query_primary, q being what it gave
BTRangePrimaryDone(start_key, end_key, q) ==
    /\ bt' = q.t
    /\ bt_last' = IF q.t.crashed THEN BT_Crashed(start_key)
                  ELSE [NoCall EXCEPT !.op = "range_query_primary", !.key = start_key,
                                      !.key2 = end_key, !.results = q.offsets]

\* IndexManager::range_query_primary of all timestamps of the entity of key
BTRangePrimaryOf(key) ==
    BTRangePrimaryDone(
        CompositeKey(key.entity_type, key.primary_id, 1, 0),
        CompositeKey(key.entity_type, key.primary_id, NumStamps, UINT32_MAX),
        IM_range_query_primary(bt, key.entity_type, key.primary_id, 1, NumStamps))

BTRangeQueryPrimary ==
    /\ focus = "primary"
    /\ ~bt.crashed
    /\ \E n \in BT_range_entities(bt_inserted) : BTRangePrimaryOf(KeyAt(n))
    /\ UNCHANGED << focus, bt_inserted, ninserts, bp_vars, im_vars, db_vars, th >>

(***************************************************************************)
(* BPlusKey, BPlusValue, BPlusNode, BPlusMetadata (BPlusTree.h 15-139).    *)
(* A string is a sequence of character codes 1..255; data[128] is the      *)
(* string up to its terminator.                                            *)
(***************************************************************************)
BPlusKey_SIZE == 128

\* BPlusKey(const string&): strncpy of at most sizeof(data) - 1 characters
BPlusKey(str) ==
    IF Len(str) > BPlusKey_SIZE - 1 THEN SubSeq(str, 1, BPlusKey_SIZE - 1) ELSE str

BPlusKey_new == << >>

\* strcmp: negative, zero or positive
RECURSIVE StrCmp(_, _)
StrCmp(a, b) ==
    IF a = << >> /\ b = << >> THEN 0
    ELSE IF a = << >> THEN 0 - 1
    ELSE IF b = << >> THEN 1
    ELSE IF Head(a) # Head(b) THEN Head(a) - Head(b)
    ELSE StrCmp(Tail(a), Tail(b))

BK_lt(a, b) == StrCmp(a, b) < 0
BK_eq(a, b) == StrCmp(a, b) = 0
BK_le(a, b) == StrCmp(a, b) <= 0
BK_gt(a, b) == StrCmp(a, b) > 0
BK_ge(a, b) == StrCmp(a, b) >= 0

BPlusValue(id, type) == [primary_id |-> id, entity_type |-> type]

BPlusValue_new == BPlusValue(0, 0)

BPlusNode_MAX_KEYS == 19
BPlusNode_MIN_KEYS == 9
BPlusNode_MAX_CHILDREN == 20

BPlusNode_new ==
    [node_type |-> 1, key_count |-> 0, parent_offset |-> 0, level |-> 0,
     keys |-> [i \in 0..(BPlusNode_MAX_KEYS - 1) |-> BPlusKey_new],
     values |-> [i \in 0..(BPlusNode_MAX_KEYS - 1) |-> BPlusValue_new],
     child_offsets |-> [i \in 0..(BPlusNode_MAX_CHILDREN - 1) |-> 0],
     next_leaf |-> 0, prev_leaf |-> 0]

BPlusNode_is_leaf(node) == node.node_type = 1

BPlusNode_is_full(node) == node.key_count >= BPlusNode_MAX_KEYS

BPlusMetadata_new ==
    [magic |-> "BPLUS001", index_name |-> "", root_offset |-> 0, leftmost_leaf |-> 0,
     total_entries |-> 0, tree_height |-> 0]

\* BPlusTree::BPlusTree(filename, index_name)
BPlusTree_new(index_name) ==
    [exists |-> FALSE, nodes |-> << >>, disk_meta |-> BPlusMetadata_new,
     metadata_ |-> [BPlusMetadata_new EXCEPT !.index_name = index_name],
     is_open |-> FALSE, readable |-> FALSE, good |-> TRUE, calls |-> << >>]

(***************************************************************************)
(* BPlusTree: node I/O (BPlusTree.h 148-182)                               *)
(***************************************************************************)
\* node is the caller's variable: it keeps its value when the read fails
BP_read_node(t, offset, node) ==
    IF offset = 0 THEN [ok |-> FALSE, node |-> node, t |-> t]
    ELSE IF FileCanRead(t, offset)
    THEN [ok |-> TRUE, node |-> NodeAt(t, offset), t |-> t]
    ELSE [ok |-> FALSE, node |-> node, t |-> [t EXCEPT !.good = FALSE]]

\* no test of offset = 0 here: a node written at 0 overwrites the metadata page
BP_write_node(t, offset, node) ==
    IF offset = 0 /\ t.is_open /\ t.good
    THEN [t EXCEPT !.disk_meta.magic = "node"]
    ELSE FileWriteNode(t, offset, node)

BP_allocate_node(t) ==
    IF t.is_open /\ t.good
    THEN [offset |-> FileSize(t), t |-> FileWriteNode(t, FileSize(t), BPlusNode_new)]
    ELSE [offset |-> TELLP_FAILED, t |-> [t EXCEPT !.good = FALSE]]

BP_find_key_position(node, key) ==
    CHOOSE pos \in 0..node.key_count :
        /\ \A q \in 0..(pos - 1) : BK_lt(node.keys[q], key)
        /\ (pos = node.key_count \/ ~BK_lt(node.keys[pos], key))

\* the while loops of insert_non_full, from pos = key_count - 1 downwards
BP_scan_down(node, key) ==
    CHOOSE pos \in (0 - 1)..(node.key_count - 1) :
        /\ \A q \in (pos + 1)..(node.key_count - 1) : BK_gt(node.keys[q], key)
        /\ (pos = 0 - 1 \/ ~BK_gt(node.keys[pos], key))

(***************************************************************************)
(* BPlusTree::split_child (BPlusTree.h 184-235).  parent is passed by      *)
(* reference: the result carries the tree and the caller's parent.         *)
(***************************************************************************)
\* new_node (lines 190-218)
BP_split_new_node(child, child_offset) ==
    [BPlusNode_new EXCEPT
       !.node_type = child.node_type,
       !.level = child.level,
       !.key_count = BPlusNode_MIN_KEYS,
       !.keys = [i \in 0..(BPlusNode_MAX_KEYS - 1) |->
                   IF i < BPlusNode_MIN_KEYS
                   THEN child.keys[BPlusNode_MIN_KEYS + 1 + i] ELSE @[i]],
       !.values = [i \in 0..(BPlusNode_MAX_KEYS - 1) |->
                     IF BPlusNode_is_leaf(child) /\ i < BPlusNode_MIN_KEYS
                     THEN child.values[BPlusNode_MIN_KEYS + 1 + i] ELSE @[i]],
       !.next_leaf = IF BPlusNode_is_leaf(child) THEN child.next_leaf ELSE @,
       !.prev_leaf = IF BPlusNode_is_leaf(child) THEN child_offset ELSE @,
       !.child_offsets = [i \in 0..(BPlusNode_MAX_CHILDREN - 1) |->
                            IF ~BPlusNode_is_leaf(child) /\ i <= BPlusNode_MIN_KEYS
                            THEN child.child_offsets[BPlusNode_MIN_KEYS + 1 + i]
                            ELSE @[i]]]

\* child after the split (lines 209, 220)
BP_split_old_node(child, new_offset) ==
    [child EXCEPT
       !.next_leaf = IF BPlusNode_is_leaf(child) THEN new_offset ELSE @,
       !.key_count = BPlusNode_MIN_KEYS]

\* parent after the split (lines 222-230)
BP_split_parent(parent, child, index, new_offset) ==
    [parent EXCEPT
       !.keys = [i \in 0..(BPlusNode_MAX_KEYS - 1) |->
                   IF i = index THEN child.keys[BPlusNode_MIN_KEYS]
                   ELSE IF i > index /\ i <= parent.key_count
                   THEN parent.keys[i - 1] ELSE @[i]],
       !.child_offsets = [i \in 0..(BPlusNode_MAX_CHILDREN - 1) |->
                   IF i = index + 1 THEN new_offset
                   ELSE IF i > index + 1 /\ i <= parent.key_count + 1
                   THEN parent.child_offsets[i - 1] ELSE @[i]],
       !.key_count = @ + 1]

\* lines 190-234, a being the result of allocate_node
BP_split_child_alloc(a, parent_offset, parent, index, child, child_offset) ==
    [t |-> BP_write_node(
             BP_write_node(
               BP_write_node(a.t, child_offset, BP_split_old_node(child, a.offset)),
               a.offset, BP_split_new_node(child, child_offset)),
             parent_offset, BP_split_parent(parent, child, index, a.offset)),
     parent |-> BP_split_parent(parent, child, index, a.offset)]

\* lines 189-234, r being the result of read_node(child_offset, child); the
\* bool it returns is not looked at
BP_split_child_read(r, parent_offset, parent, index) ==
    BP_split_child_alloc(BP_allocate_node(Called(r.t, SplitChildCall(r.node, parent, r.ok))),
                         parent_offset, parent, index,
                         r.node, parent.child_offsets[index])

BP_split_child(t, parent_offset, parent, index) ==
    BP_split_child_read(BP_read_node(t, parent.child_offsets[index], BPlusNode_new),
                        parent_offset, parent, index)

(***************************************************************************)
(* BPlusTree::insert_non_full, BPlusTree::insert (BPlusTree.h 237-274,     *)
(* 409-436)                                                                *)
(***************************************************************************)
\* lines 244-252: the leaf with key and value put in after slot pos
BP_leaf_put(node, key, value, pos) ==
    [node EXCEPT
       !.keys = [i \in 0..(BPlusNode_MAX_KEYS - 1) |->
                   IF i = pos + 1 THEN key
                   ELSE IF i > pos + 1 /\ i <= node.key_count
                   THEN node.keys[i - 1] ELSE @[i]],
       !.values = [i \in 0..(BPlusNode_MAX_KEYS - 1) |->
                   IF i = pos + 1 THEN value
                   ELSE IF i > pos + 1 /\ i <= node.key_count
                   THEN node.values[i - 1] ELSE @[i]],
       !.key_count = @ + 1]

RECURSIVE BP_insert_non_full(_, _, _, _, _)
RECURSIVE BP_descend_read(_, _, _, _, _, _)
RECURSIVE BP_descend_split(_, _, _, _, _)
RECURSIVE BP_descend_into(_, _, _, _)

\* line 272, r being the result of the last read_node into child
BP_descend_into(r, child_offset, key, value) ==
    BP_insert_non_full(r.t, child_offset, r.node, key, value)

\* lines 267-272, s being the result of split_child and child the full child
BP_descend_split(s, child, pos, key, value) ==
    IF BK_lt(s.parent.keys[pos], key)
    THEN BP_descend_into(BP_read_node(s.t, s.parent.child_offsets[pos + 1], child),
                         s.parent.child_offsets[pos + 1], key, value)
    ELSE BP_descend_into(BP_read_node(s.t, s.parent.child_offsets[pos], child),
                         s.parent.child_offsets[pos], key, value)

\* lines 264-272, r being the result of read_node(child_offset, child)
BP_descend_read(r, node_offset, node, pos, key, value) ==
    IF BPlusNode_is_full(r.node)
    THEN BP_descend_split(BP_split_child(r.t, node_offset, node, pos), r.node,
                          pos, key, value)
    ELSE BP_descend_into(r, node.child_offsets[pos], key, value)

BP_insert_non_full(t, node_offset, node, key, value) ==
    IF BPlusNode_is_leaf(node)
    THEN BP_write_node(Called(t, InsertNonFullCall(node.key_count)), node_offset,
                       BP_leaf_put(node, key, value, BP_scan_down(node, key)))
    ELSE BP_descend_read(
             BP_read_node(Called(t, InsertNonFullCall(node.key_count)),
                          node.child_offsets[BP_scan_down(node, key) + 1], BPlusNode_new),
             node_offset, node, BP_scan_down(node, key) + 1, key, value)

\* metadata_.total_entries++
BP_count_entry(t) == [t EXCEPT !.metadata_.total_entries = @ + 1]

\* lines 423-424
BP_set_root(t, new_root_offset) ==
    [t EXCEPT !.metadata_.root_offset = new_root_offset,
              !.metadata_.tree_height = @ + 1]

\* lines 417-420
BP_new_root(root, root_offset) ==
    [BPlusNode_new EXCEPT !.node_type = 0,
                          !.level = root.level + 1,
                          !.child_offsets[0] = root_offset]

\* lines 423-427, s being the result of split_child(new_root_offset, new_root, 0)
BP_insert_split(s, new_root_offset, key, value) ==
    BP_descend_into(BP_read_node(BP_set_root(s.t, new_root_offset), new_root_offset, s.parent),
                    new_root_offset, key, value)

\* lines 416-427, a being the result of allocate_node
BP_insert_alloc(a, root, root_offset, key, value) ==
    BP_insert_split(BP_split_child(a.t, a.offset, BP_new_root(root, root_offset), 0),
                    a.offset, key, value)

\* lines 414-432, r being the result of read_node(root_offset, root)
BP_insert_read(r, root_offset, key, value) ==
    IF BPlusNode_is_full(r.node)
    THEN BP_insert_alloc(BP_allocate_node(r.t), r.node, root_offset, key, value)
    ELSE BP_insert_non_full(r.t, root_offset, r.node, key, value)

BP_insert(t, key, value) ==
    [ret |-> TRUE,
     t |-> BP_count_entry(
             BP_insert_read(BP_read_node([t EXCEPT !.calls = << >>],
                                         t.metadata_.root_offset, BPlusNode_new),
                            t.metadata_.root_offset, key, value))]

(***************************************************************************)
(* BPlusTree::search_recursive, search, scan_all (BPlusTree.h 276-297,     *)
(* 438-462)                                                                *)
(***************************************************************************)
RECURSIVE BP_search_recursive(_, _, _, _)
RECURSIVE BP_search_node(_, _, _, _)

\* lines 284-296, r being the result of read_node (the bool it returns is
\* not looked at) and pos of find_key_position
BP_search_node(r, pos, key, result) ==
    IF BPlusNode_is_leaf(r.node)
    THEN IF pos < r.node.key_count /\ BK_eq(r.node.keys[pos], key)
         THEN [found |-> TRUE, result |-> r.node.values[pos], t |-> r.t]
         ELSE [found |-> FALSE, result |-> result, t |-> r.t]
    ELSE BP_search_recursive(r.t, r.node.child_offsets[pos], key, result)

BP_search_read(r, key, result) ==
    BP_search_node(r, BP_find_key_position(r.node, key), key, result)

BP_search_recursive(t, node_offset, key, result) ==
    IF node_offset = 0 THEN [found |-> FALSE, result |-> result, t |-> t]
    ELSE BP_search_read(BP_read_node(t, node_offset, BPlusNode_new), key, result)

BP_search(t, key, result) ==
    BP_search_recursive(t, t.metadata_.root_offset, key, result)

\* lines 453-456: the entries of a leaf
BP_leaf_entries(leaf) ==
    [i \in 1..leaf.key_count |-> [key |-> leaf.keys[i - 1], value |-> leaf.values[i - 1]]]

\* the while loop of scan_all from leaf offset current on
RECURSIVE BP_scan_from(_, _, _)
RECURSIVE BP_scan_leaf(_, _)

\* lines 453-458, r being the result of read_node(current, leaf)
BP_scan_leaf(r, results) ==
    BP_scan_from(r.t, r.node.next_leaf, results \o BP_leaf_entries(r.node))

BP_scan_from(t, current, results) ==
    IF current = 0 THEN [results |-> results, t |-> t]
    ELSE BP_scan_leaf(BP_read_node(t, current, BPlusNode_new), results)

BP_scan_all(t) == BP_scan_from(t, t.metadata_.leftmost_leaf, << >>)

(***************************************************************************)
(* BPlusTree::create, open, close (BPlusTree.h 310-407).                   *)
(* fs_ok: the file system lets the file be opened.                         *)
(***************************************************************************)
\* lines 338-339: metadata_ is not reset, only its two offsets are set
BP_create_metadata(metadata) ==
    [metadata EXCEPT !.root_offset = PAGE_SIZE, !.leftmost_leaf = PAGE_SIZE]

BP_create(t, fs_ok) ==
    IF ~fs_ok
    THEN [ret |-> FALSE, t |-> [t EXCEPT !.is_open = FALSE, !.good = FALSE]]
    ELSE [ret |-> TRUE,
          t |-> [t EXCEPT
                   !.exists = TRUE,
                   !.is_open = TRUE, !.readable = FALSE, !.good = TRUE,
                   !.metadata_ = BP_create_metadata(@),
                   !.disk_meta = BP_create_metadata(t.metadata_),
                   !.nodes = << BPlusNode_new >>]]

\* lines 369-376 and 390-397: the test of the magic tag after the metadata
\* was read
BP_open_verify(t) ==
    IF t.metadata_.magic # "BPLUS001"
    THEN [ret |-> FALSE, t |-> [t EXCEPT !.is_open = FALSE]]
    ELSE [ret |-> TRUE, t |-> t]

BP_open(t) ==
    IF t.is_open
    THEN BP_open_verify(IF t.readable /\ t.good
                        THEN [t EXCEPT !.metadata_ = t.disk_meta]
                        ELSE [t EXCEPT !.good = FALSE])
    ELSE IF ~t.exists
    THEN [ret |-> FALSE, t |-> [t EXCEPT !.good = FALSE]]
    ELSE BP_open_verify([t EXCEPT !.is_open = TRUE, !.readable = TRUE, !.good = TRUE,
                                  !.metadata_ = t.disk_meta])

BP_close(t) ==
    IF t.is_open
    THEN [t EXCEPT !.disk_meta = IF t.good THEN t.metadata_ ELSE @,
                   !.is_open = FALSE]
    ELSE t

\* an index file created by an earlier create() and close(), opened now
BP_opened == BP_open(BP_close(BP_create(BPlusTree_new("vehicle_plate"), TRUE).t)).t

(***************************************************************************)
(* IndexManager: the license-plate index (IndexManager.h 259-285)          *)
(***************************************************************************)
IM_insert_vehicle_plate(t, plate, vehicle_id) ==
    BP_insert(t, BPlusKey(plate), BPlusValue(vehicle_id, 2))

\* lines 278-284, s being the result of search; vehicle_id is the caller's
\* variable, left alone when the plate is not found
IM_search_by_plate_result(s, vehicle_id) ==
    [found |-> s.found,
     vehicle_id |-> IF s.found THEN s.result.primary_id ELSE vehicle_id,
     t |-> s.t]

IM_search_by_plate(t, plate, vehicle_id) ==
    IM_search_by_plate_result(BP_search(t, BPlusKey(plate), BPlusValue_new), vehicle_id)

(***************************************************************************)
(* Workload of the license-plate index: as for the primary index, with     *)
(* plates ... < PlateAt(n) < PlateAt(n + 1) < ... of two and three         *)
(* characters.                                                             *)
(***************************************************************************)
\* keys of a load of the B+-Tree
BP_MaxLoad == 305

PlateBase == BP_MaxLoad + MaxInserts
PlateTop == PlateBase + BP_MaxLoad + MaxInserts

\* the load sizes after which the chosen inserts may start: the empty tree,
\* a full root leaf, the tree after the first split, a full second leaf,
\* a full internal root, the tree after the split of an internal root
BP_FreeFrom == {0, 19, 20, 29, 200, 201}

\* the two capital letters numbered q
PlateLetters(q) == << 65 + (q \div 26), 65 + (q % 26) >>

\* "AA" < "AAB" < "AAC" < "AB" < "ABB" < ...
PlateAt(n) ==
    IF n % 3 = 0 THEN PlateLetters(n \div 3)
    ELSE Append(PlateLetters(n \div 3), 65 + (n % 3))

\* the n with plate = PlateAt(n)
PlateIndex(plate) ==
    3 * (26 * (plate[1] - 65) + (plate[2] - 65))
        + (IF Len(plate) = 2 THEN 0 ELSE plate[3] - 65)

\* the vehicle id stored by the c-th insert of PlateAt(n)
VehicleId(n, c) == n * MaxCopies + c + 1

BP_copies(inserted, key) == Cardinality({e \in inserted : e.key = key})

BP_indices(inserted) == {PlateIndex(e.key) : e \in inserted}

BP_next_of(inserted, idx) ==
    IF idx = {} THEN {PlateBase}
    ELSE {n \in {SetMin(idx) - 1, SetMax(idx) + 1} \cup
                ({SetMin(idx), SetMax(idx), PlateBase + BPlusNode_MIN_KEYS,
                  PlateBase - BPlusNode_MIN_KEYS} \cap idx) :
            n \in 0..PlateTop /\ BP_copies(inserted, PlateAt(n)) < MaxCopies}

BP_next_keys(inserted) == BP_next_of(inserted, BP_indices(inserted))

BP_NoCall == [op |-> "none", key |-> BPlusKey_new, ret |-> FALSE,
              value |-> BPlusValue_new, results |-> << >>]

\* the history of an insert_vehicle_plate that carried plate and vehicle_id,
\* ins being what it gave
BPInsertDone(plate, vehicle_id, ins) ==
    /\ bp' = ins.t
    /\ bp_inserted' = IF ins.ret
                      THEN bp_inserted \cup {[key |-> BPlusKey(plate),
                                              value |-> BPlusValue(vehicle_id, 2)]}
                      ELSE bp_inserted
    /\ bp_last' = [BP_NoCall EXCEPT !.op = "insert", !.key = BPlusKey(plate),
                                    !.ret = ins.ret,
                                    !.value = BPlusValue(vehicle_id, 2)]

BPInsertPlate(plate, vehicle_id) ==
    BPInsertDone(plate, vehicle_id, IM_insert_vehicle_plate(bp, plate, vehicle_id))

\* IndexManager::insert_vehicle_plate of PlateAt(n), the history variables included
BPInsertKey(n) ==
    BPInsertPlate(PlateAt(n), VehicleId(n, BP_copies(bp_inserted, BPlusKey(PlateAt(n)))))

\* a load of at most cap plates: the next plate above the plates loaded so far
BP_load_up(cap) ==
    /\ focus = "vehicle_plate"
    /\ Cardinality(bp_inserted) < cap
    /\ bp_inserted # {} => SetMin(BP_indices(bp_inserted)) = PlateBase
    /\ BPInsertKey(PlateBase + Cardinality(bp_inserted))

\* a load of at most cap plates: the next plate below the plates loaded so far
BP_load_down(cap) ==
    /\ focus = "vehicle_plate"
    /\ Cardinality(bp_inserted) < cap
    /\ bp_inserted # {}
    /\ SetMax(BP_indices(bp_inserted)) = PlateBase
    /\ BPInsertKey(PlateBase - Cardinality(bp_inserted))

BPLoadUp ==
    /\ ninserts = 0
    /\ BP_load_up(BP_MaxLoad)
    /\ UNCHANGED << focus, ninserts, bt_vars, im_vars, db_vars, th >>

BPLoadDown ==
    /\ ninserts = 0
    /\ BP_load_down(BP_MaxLoad)
    /\ UNCHANGED << focus, ninserts, bt_vars, im_vars, db_vars, th >>

\* a chosen insert
BPInsert ==
    /\ focus = "vehicle_plate"
    /\ ninserts < MaxInserts
    /\ ninserts = 0 => Cardinality(bp_inserted) \in BP_FreeFrom
    /\ \E n \in BP_next_keys(bp_inserted) : BPInsertKey(n)
    /\ ninserts' = ninserts + 1
    /\ UNCHANGED << focus, bt_vars, im_vars, db_vars, th >>

BP_search_of(idx) ==
    IF idx = {} THEN {PlateBase}
    ELSE {SetMin(idx), PlateBase + BPlusNode_MIN_KEYS, PlateBase - BPlusNode_MIN_KEYS,
          SetMax(idx) + 1} \cap (0..PlateTop)

BP_search_keys(inserted) == BP_search_of(BP_indices(inserted))

\* the history of a search_by_plate for plate, s being what it gave
BPSearchDone(plate, s) ==
    /\ bp' = s.t
    /\ bp_last' = [BP_NoCall EXCEPT !.op = "search", !.key = BPlusKey(plate),
                                    !.ret = s.found,
                                    !.value = BPlusValue(s.vehicle_id, 2)]

\* IndexManager::search_by_plate
BP_search_any ==
    /\ focus = "vehicle_plate"
    /\ \E n \in BP_search_keys(bp_inserted) :
         BPSearchDone(PlateAt(n), IM_search_by_plate(bp, PlateAt(n), 0))

BPSearch ==
    /\ BP_search_any
    /\ UNCHANGED << focus, bp_inserted, ninserts, bt_vars, im_vars, db_vars, th >>

\* the history of a scan_all, q being what it gave
BPScanDone(q) ==
    /\ bp' = q.t
    /\ bp_last' = [BP_NoCall EXCEPT !.op = "scan_all", !.results = q.results]

\* BPlusTree::scan_all
BP_scan_any ==
    /\ focus = "vehicle_plate"
    /\ BPScanDone(BP_scan_all(bp))

BPScanAll ==
    /\ BP_scan_any
    /\ UNCHANGED << focus, bp_inserted, ninserts, bt_vars, im_vars, db_vars, th >>

(***************************************************************************)
(* IndexManager: the four index objects (IndexManager.h 17-152).  A field  *)
(* of im holds the object a unique_ptr owns together with the file of its  *)
(* file name; held is the set of the unique_ptrs that are not null.        *)
(***************************************************************************)
IndexNames ==
    {"primary_index_", "driver_email_index_", "vehicle_plate_index_",
     "driver_username_index_"}

\* IndexManager::IndexManager: the four unique_ptrs are null
IndexManager_new ==
    [primary_index_ |-> BTree_new,
     driver_email_index_ |-> BPlusTree_new("driver_email"),
     vehicle_plate_index_ |-> BPlusTree_new("vehicle_plate"),
     driver_username_index_ |-> BPlusTree_new("driver_username"),
     held |-> {}]

\* no call on the IndexManager yet
IM_NoCall ==
    [op |-> "none", ret |-> FALSE, failing |-> {}, name |-> "", n |-> 0, calls |-> 0]

\* the unique_ptr name now owns the object t
IM_set(m, name, t) == [m EXCEPT ![name] = t, !.held = @ \cup {name}]

\* a new BTree object for the file of f
BT_on_file(f) ==
    [BTree_new EXCEPT !.exists = f.exists, !.nodes = f.nodes, !.disk_meta = f.disk_meta]

\* a new BPlusTree object for the file of f
BP_on_file(f, index_name) ==
    [BPlusTree_new(index_name) EXCEPT
        !.exists = f.exists, !.nodes = f.nodes, !.disk_meta = f.disk_meta]

\* primary_index_ = make_unique<BTree>(...): the object the pointer owned is
\* destroyed (~BTree calls close) and a new object takes its place
IM_make_BTree(m) ==
    BT_on_file(IF "primary_index_" \in m.held
               THEN BT_close(m.primary_index_) ELSE m.primary_index_)

\* name = make_unique<BPlusTree>(..., index_name), likewise
IM_make_BPlusTree(m, name, index_name) ==
    BP_on_file(IF name \in m.held THEN BP_close(m[name]) ELSE m[name], index_name)

\* create() and, when it returned true, open() on the same object
IM_BT_create_open(c) == IF c.ret THEN BT_open(c.t) ELSE c

IM_BP_create_open(c) == IF c.ret THEN BP_open(c.t) ELSE c

\* lines 86-99, r being what create() and open() of the username index gave
IM_create_username(m, r) ==
    [ret |-> r.ret, im |-> IM_set(m, "driver_username_index_", r.t)]

\* lines 73-99, r being what create() and open() of the plate index gave;
\* fs_ok[name]: the file system lets create() open the file of name
IM_create_plate(m, r, fs_ok) ==
    IF ~r.ret THEN [ret |-> FALSE, im |-> IM_set(m, "vehicle_plate_index_", r.t)]
    ELSE IM_create_username(
            IM_set(m, "vehicle_plate_index_", r.t),
            IM_BP_create_open(
                BP_create(IM_make_BPlusTree(m, "driver_username_index_", "driver_username"),
                          fs_ok["driver_username_index_"])))

\* lines 60-99, r being what create() and open() of the email index gave
IM_create_email(m, r, fs_ok) ==
    IF ~r.ret THEN [ret |-> FALSE, im |-> IM_set(m, "driver_email_index_", r.t)]
    ELSE IM_create_plate(
            IM_set(m, "driver_email_index_", r.t),
            IM_BP_create_open(
                BP_create(IM_make_BPlusTree(m, "vehicle_plate_index_", "vehicle_plate"),
                          fs_ok["vehicle_plate_index_"])),
            fs_ok)

\* lines 49-99, r being what create() and open() of the primary index gave
IM_create_primary(m, r, fs_ok) ==
    IF ~r.ret THEN [ret |-> FALSE, im |-> IM_set(m, "primary_index_", r.t)]
    ELSE IM_create_email(
            IM_set(m, "primary_index_", r.t),
            IM_BP_create_open(
                BP_create(IM_make_BPlusTree(m, "driver_email_index_", "driver_email"),
                          fs_ok["driver_email_index_"])),
            fs_ok)

IM_create_indexes(m, fs_ok) ==
    IM_create_primary(
        m, IM_BT_create_open(BT_create(IM_make_BTree(m), fs_ok["primary_index_"])), fs_ok)

\* lines 130-139, r being what open() of the username index gave
IM_open_username(m, r) ==
    [ret |-> r.ret, im |-> IM_set(m, "driver_username_index_", r.t)]

\* lines 121-139, r being what open() of the plate index gave
IM_open_plate(m, r) ==
    IF ~r.ret THEN [ret |-> FALSE, im |-> IM_set(m, "vehicle_plate_index_", r.t)]
    ELSE IM_open_username(
            IM_set(m, "vehicle_plate_index_", r.t),
            BP_open(IM_make_BPlusTree(m, "driver_username_index_", "driver_username")))

\* open_indexes going on to the plate index whatever open() of the email
\* index gave
IM_open_email_unchecked(m, r) ==
    IM_open_plate(
        IM_set(m, "driver_email_index_", r.t),
        BP_open(IM_make_BPlusTree(m, "vehicle_plate_index_", "vehicle_plate")))

\* lines 112-139, r being what open() of the email index gave
IM_open_email(m, r) ==
    IF ~r.ret THEN [ret |-> FALSE, im |-> IM_set(m, "driver_email_index_", r.t)]
    ELSE IM_open_plate(
            IM_set(m, "driver_email_index_", r.t),
            BP_open(IM_make_BPlusTree(m, "vehicle_plate_index_", "vehicle_plate")))

\* lines 105-139, r being what open() of the primary index gave
IM_open_primary(m, r) ==
    IF ~r.ret THEN [ret |-> FALSE, im |-> IM_set(m, "primary_index_", r.t)]
    ELSE IM_open_email(
            IM_set(m, "primary_index_", r.t),
            BP_open(IM_make_BPlusTree(m, "driver_email_index_", "driver_email")))

IM_open_indexes(m) == IM_open_primary(m, BT_open(IM_make_BTree(m)))

IM_close_all(m) ==
    [m EXCEPT
       !.primary_index_ = IF "primary_index_" \in m.held THEN BT_close(@) ELSE @,
       !.driver_email_index_ = IF "driver_email_index_" \in m.held THEN BP_close(@) ELSE @,
       !.vehicle_plate_index_ = IF "vehicle_plate_index_" \in m.held THEN BP_close(@) ELSE @,
       !.driver_username_index_ =
           IF "driver_username_index_" \in m.held THEN BP_close(@) ELSE @]

\* insert_driver_email, insert_driver_username and insert_vehicle_plate:
\* the test of the unique_ptr name, then insert on its object with the
\* entity type the method gives the value
IM_insert_secondary_done(m, name, ins) ==
    [ret |-> ins.ret, im |-> [m EXCEPT ![name] = ins.t]]

IM_insert_secondary(m, name, str, id, entity_type) ==
    IF name \notin m.held THEN [ret |-> FALSE, im |-> m]
    ELSE IM_insert_secondary_done(
            m, name, BP_insert(m[name], BPlusKey(str), BPlusValue(id, entity_type)))

IM_insert_driver_email(m, email, driver_id) ==
    IM_insert_secondary(m, "driver_email_index_", email, driver_id, 1)

IM_insert_driver_username(m, username, driver_id) ==
    IM_insert_secondary(m, "driver_username_index_", username, driver_id, 1)

IM_insert_plate(m, plate, vehicle_id) ==
    IM_insert_secondary(m, "vehicle_plate_index_", plate, vehicle_id, 2)

\* search_by_email, search_by_username and search_by_plate: the test of the
\* unique_ptr name, then search on its object
IM_search_secondary_done(m, name, s, id) ==
    [found |-> s.found, id |-> IF s.found THEN s.result.primary_id ELSE id,
     im |-> [m EXCEPT ![name] = s.t]]

IM_search_secondary(m, name, str, id) ==
    IF name \notin m.held THEN [found |-> FALSE, id |-> id, im |-> m]
    ELSE IM_search_secondary_done(
            m, name, BP_search(m[name], BPlusKey(str), BPlusValue_new), id)

\* insert_primary with the test of primary_index_
IM_insert_primary_done(m, ins) ==
    [ret |-> ins.ret, im |-> [m EXCEPT !.primary_index_ = ins.t]]

IM_insert_primary_checked(m, entity_type, entity_id, timestamp, record_offset) ==
    IF "primary_index_" \notin m.held THEN [ret |-> FALSE, im |-> m]
    ELSE IM_insert_primary_done(
            m, IM_insert_primary(m.primary_index_, entity_type, entity_id, timestamp,
                                 record_offset))

\* rebuild_driver_indexes over the list drivers from its element i on
RECURSIVE IM_rebuild_drivers_from(_, _, _)
IM_rebuild_drivers_from(m, drivers, i) ==
    IF i > Len(drivers) THEN m
    ELSE IM_rebuild_drivers_from(
            IM_insert_driver_username(
                IM_insert_driver_email(m, drivers[i].email, drivers[i].driver_id).im,
                drivers[i].username, drivers[i].driver_id).im,
            drivers, i + 1)

IM_rebuild_driver_indexes(m, drivers) ==
    [ret |-> TRUE, im |-> IM_rebuild_drivers_from(m, drivers, 1)]

\* rebuild_vehicle_indexes over the list vehicles from its element i on
RECURSIVE IM_rebuild_vehicles_from(_, _, _)
IM_rebuild_vehicles_from(m, vehicles, i) ==
    IF i > Len(vehicles) THEN m
    ELSE IM_rebuild_vehicles_from(
            IM_insert_plate(m, vehicles[i].license_plate, vehicles[i].vehicle_id).im,
            vehicles, i + 1)

IM_rebuild_vehicle_indexes(m, vehicles) ==
    [ret |-> TRUE, im |-> IM_rebuild_vehicles_from(m, vehicles, 1)]

(***************************************************************************)
(* The heap store: DatabaseManager.h over the records of sdm_types.hpp.    *)
(* d.file is the file of the store (its header and the slots of the       *)
(* driver, vehicle and trip tables, each slot under its byte offset),      *)
(* d.file_ the fstream of the object, the other fields its members.       *)
(* The slots of the maintenance, expense, document and incident tables are *)
(* written once by create() and touched by none of the operations below.   *)
(***************************************************************************)
sizeof_SDMHeader == 4096
sizeof_DriverProfile == 1024
sizeof_VehicleInfo == 1024
sizeof_TripRecord == 1024
sizeof_MaintenanceRecord == 1024
sizeof_ExpenseRecord == 1024
sizeof_DocumentMetadata == 1024
sizeof_IncidentReport == 2048

\* the slot counts of the four tables SDMConfig has no capacity for
MaintenanceSlots == 100000
ExpenseSlots == 500000
DocumentSlots == 100000
IncidentSlots == 50000

SDMConfig(max_drivers, max_vehicles, max_trips) ==
    [max_drivers |-> max_drivers, max_vehicles |-> max_vehicles, max_trips |-> max_trips]

\* SDMHeader()
SDMHeader_new ==
    [magic |-> "SDMDB001", total_size |-> 0,
     driver_table_offset |-> 0, vehicle_table_offset |-> 0, trip_table_offset |-> 0,
     maintenance_table_offset |-> 0, expense_table_offset |-> 0,
     document_table_offset |-> 0, incident_table_offset |-> 0,
     max_drivers |-> 10000, max_vehicles |-> 50000, max_trips |-> 10000000]

\* DriverProfile(), VehicleInfo() and TripRecord(); of the fields that no
\* operation of the store looks at, one is kept
DriverProfile_new == [driver_id |-> 0, is_active |-> 1, total_trips |-> 0]

VehicleInfo_new == [vehicle_id |-> 0, is_active |-> 1, owner_driver_id |-> 0]

TripRecord_new == [trip_id |-> 0, driver_id |-> 0]

HeapTables == {"drivers", "vehicles", "trips"}

\* no file under filename_
DB_no_file ==
    [exists |-> FALSE, header |-> SDMHeader_new,
     drivers |-> << >>, vehicles |-> << >>, trips |-> << >>]

\* a file of no bytes under filename_
DB_empty_file == [DB_no_file EXCEPT !.exists = TRUE, !.header = << >>]

\* a file under filename_ that another program wrote: sizeof(SDMHeader) bytes
\* that begin with another tag, and nothing after them
DB_foreign_file ==
    [DB_no_file EXCEPT
        !.exists = TRUE,
        !.header = [SDMHeader_new EXCEPT !.magic = "NOTADB00", !.max_drivers = 0,
                                         !.max_vehicles = 0, !.max_trips = 0]]

\* DatabaseManager(filename); the constructor leaves the seven table starts
\* unset, and nothing reads them before create() or open() has set them
DatabaseManager_new ==
    [file |-> DB_no_file,
     file_ |-> [is_open |-> FALSE, fail |-> FALSE],
     header_ |-> SDMHeader_new,
     is_open_ |-> FALSE,
     driver_table_start_ |-> 0, vehicle_table_start_ |-> 0, trip_table_start_ |-> 0,
     maintenance_table_start_ |-> 0, expense_table_start_ |-> 0,
     document_table_start_ |-> 0, incident_table_start_ |-> 0]

\* calculate_offsets: current_offset when the table named is reached
DB_offset_drivers == sizeof_SDMHeader

DB_offset_vehicles(h) == DB_offset_drivers + h.max_drivers * sizeof_DriverProfile

\* calculate_offsets not advancing current_offset over the vehicle table
DB_offset_trips_no_advance(h) == DB_offset_vehicles(h)

DB_offset_trips(h) == DB_offset_vehicles(h) + h.max_vehicles * sizeof_VehicleInfo

DB_offset_maintenance(h) == DB_offset_trips(h) + h.max_trips * sizeof_TripRecord

DB_offset_expense(h) ==
    DB_offset_maintenance(h) + MaintenanceSlots * sizeof_MaintenanceRecord

DB_offset_document(h) == DB_offset_expense(h) + ExpenseSlots * sizeof_ExpenseRecord

DB_offset_incident(h) == DB_offset_document(h) + DocumentSlots * sizeof_DocumentMetadata

DB_offset_end(h) == DB_offset_incident(h) + IncidentSlots * sizeof_IncidentReport

calculate_offsets(d) ==
    [d EXCEPT
        !.header_ = [d.header_ EXCEPT
            !.driver_table_offset = DB_offset_drivers,
            !.vehicle_table_offset = DB_offset_vehicles(d.header_),
            !.trip_table_offset = DB_offset_trips(d.header_),
            !.maintenance_table_offset = DB_offset_maintenance(d.header_),
            !.expense_table_offset = DB_offset_expense(d.header_),
            !.document_table_offset = DB_offset_document(d.header_),
            !.incident_table_offset = DB_offset_incident(d.header_),
            !.total_size = DB_offset_end(d.header_)],
        !.driver_table_start_ = DB_offset_drivers,
        !.vehicle_table_start_ = DB_offset_vehicles(d.header_),
        !.trip_table_start_ = DB_offset_trips(d.header_),
        !.maintenance_table_start_ = DB_offset_maintenance(d.header_),
        !.expense_table_start_ = DB_offset_expense(d.header_),
        !.document_table_start_ = DB_offset_document(d.header_),
        !.incident_table_start_ = DB_offset_incident(d.header_)]

\* lines 115-120: the header create() fills before calculate_offsets
DB_create_header(config) ==
    [SDMHeader_new EXCEPT
        !.max_drivers = config.max_drivers,
        !.max_vehicles = config.max_vehicles,
        !.max_trips = config.max_trips]

\* lines 124-150: the header and the slots create() writes one after the
\* other from the start of the truncated file; pos is the write position
\* when the loop over n slots of the given size begins
DB_written_slots(pos, n, size, empty) ==
    [o \in {pos + i * size : i \in 0..(n - 1)} |-> empty]

DB_written_file(h) ==
    [exists |-> TRUE,
     header |-> h,
     drivers |-> DB_written_slots(sizeof_SDMHeader, h.max_drivers, sizeof_DriverProfile,
                                  [DriverProfile_new EXCEPT !.is_active = 0]),
     vehicles |-> DB_written_slots(sizeof_SDMHeader + h.max_drivers * sizeof_DriverProfile,
                                   h.max_vehicles, sizeof_VehicleInfo,
                                   [VehicleInfo_new EXCEPT !.is_active = 0]),
     trips |-> DB_written_slots(sizeof_SDMHeader + h.max_drivers * sizeof_DriverProfile
                                   + h.max_vehicles * sizeof_VehicleInfo,
                                h.max_trips, sizeof_TripRecord, TripRecord_new)]

\* lines 122-189, d holding the header of lines 115-120
DB_create_write(d) ==
    [ret |-> TRUE,
     db |-> [calculate_offsets(d) EXCEPT
                !.file = DB_written_file(calculate_offsets(d).header_),
                !.file_ = [is_open |-> FALSE, fail |-> FALSE]]]

\* create(config); fs_ok: the file system lets the file be opened for writing.
\* is_open_ is left as it was.
DB_create(d, config, fs_ok) ==
    IF ~fs_ok
    THEN [ret |-> FALSE, db |-> [d EXCEPT !.file_ = [is_open |-> FALSE, fail |-> TRUE]]]
    ELSE DB_create_write([d EXCEPT !.header_ = DB_create_header(config)])

\* file_.open(filename_, in | out): fails on a stream that is open already
\* and on a missing file; a success clears the state of the stream
DB_file_open(d) ==
    IF d.file_.is_open \/ ~d.file.exists
    THEN [d EXCEPT !.file_.fail = TRUE]
    ELSE [d EXCEPT !.file_ = [is_open |-> TRUE, fail |-> FALSE]]

\* open() that does not read the header
DB_read_header_none(d) == d

\* the file holds the sizeof(SDMHeader) bytes of a header
DB_has_header(f) == DOMAIN f.header # {}

\* line 200: file_.read of the header; on a file of no bytes the read fails
\* and leaves header_ as it was
DB_read_header(d) ==
    IF d.file_.fail THEN d
    ELSE IF ~DB_has_header(d.file) THEN [d EXCEPT !.file_.fail = TRUE]
    ELSE [d EXCEPT !.header_ = d.file.header]

\* lines 202-217, the header read
DB_open_verify(d) ==
    IF d.header_.magic # "SDMDB001"
    THEN [ret |-> FALSE, db |-> [d EXCEPT !.file_.is_open = FALSE]]
    ELSE [ret |-> TRUE,
          db |-> [d EXCEPT
                    !.driver_table_start_ = d.header_.driver_table_offset,
                    !.vehicle_table_start_ = d.header_.vehicle_table_offset,
                    !.trip_table_start_ = d.header_.trip_table_offset,
                    !.maintenance_table_start_ = d.header_.maintenance_table_offset,
                    !.expense_table_start_ = d.header_.expense_table_offset,
                    !.document_table_start_ = d.header_.document_table_offset,
                    !.incident_table_start_ = d.header_.incident_table_offset,
                    !.is_open_ = TRUE]]

\* lines 194-217, d after file_.open
DB_open_opened(d) ==
    IF ~d.file_.is_open THEN [ret |-> FALSE, db |-> d]
    ELSE DB_open_verify(DB_read_header(d))

DB_open(d) == DB_open_opened(DB_file_open(d))

\* close(): the header is written back unless the stream has failed
DB_close(d) ==
    IF d.is_open_ /\ d.file_.is_open
    THEN [d EXCEPT
            !.file.header = IF d.file_.fail THEN @ ELSE d.header_,
            !.file_.is_open = FALSE,
            !.is_open_ = FALSE]
    ELSE d

\* ~DatabaseManager(), and a new DatabaseManager on the same file
DB_restart(d) == [DatabaseManager_new EXCEPT !.file = DB_close(d).file]

\* the table start, the capacity and the slot size the loops over a table use
DB_table_start(d, table) ==
    IF table = "drivers" THEN d.driver_table_start_
    ELSE IF table = "vehicles" THEN d.vehicle_table_start_
    ELSE d.trip_table_start_

DB_capacity(d, table) ==
    IF table = "drivers" THEN d.header_.max_drivers
    ELSE IF table = "vehicles" THEN d.header_.max_vehicles
    ELSE d.header_.max_trips

DB_sizeof(table) ==
    IF table = "drivers" THEN sizeof_DriverProfile
    ELSE IF table = "vehicles" THEN sizeof_VehicleInfo
    ELSE sizeof_TripRecord

DB_slot_offset(d, table, i) == DB_table_start(d, table) + i * DB_sizeof(table)

\* the id of a record, and the record a loop declares before it reads
DB_id(table, record) ==
    IF table = "drivers" THEN record.driver_id
    ELSE IF table = "vehicles" THEN record.vehicle_id
    ELSE record.trip_id

DB_local(table) ==
    IF table = "drivers" THEN DriverProfile_new
    ELSE IF table = "vehicles" THEN VehicleInfo_new
    ELSE TripRecord_new

\* the test create_* makes of a slot, and the test read_*, update_* and
\* delete_* make
DB_is_free(table, record) ==
    IF table = "trips" THEN record.trip_id = 0 ELSE record.is_active = 0

DB_matches(table, record, id) ==
    IF table = "trips" THEN record.trip_id = id
    ELSE record.is_active = 1 /\ DB_id(table, record) = id

\* seekg and read at offset succeed
DB_can_read(d, table, offset) ==
    /\ d.file_.is_open
    /\ ~d.file_.fail
    /\ offset \in DOMAIN d.file[table]

\* file_.seekg(offset); file_.read(&into): a failed read leaves into as it was
DB_read(d, table, offset, into) ==
    IF DB_can_read(d, table, offset) THEN d.file[table][offset] ELSE into

\* file_.seekp(offset); file_.write(&record); file_.flush() after the read
\* at the same offset
DB_write(d, table, offset, record) ==
    IF DB_can_read(d, table, offset)
    THEN [d EXCEPT !.file[table][offset] = record]
    ELSE [d EXCEPT !.file_.fail = TRUE]

\* the stream after the reads of a loop that wrote nothing
DB_scanned(d, table) ==
    IF DB_capacity(d, table) > 0 /\ ~DB_can_read(d, table, DB_slot_offset(d, table, 0))
    THEN [d EXCEPT !.file_.fail = TRUE]
    ELSE d

\* what is left of a loop once the read of a slot has failed and the record
\* it left did not end the loop: the stream has failed, every later read
\* leaves the same record, and the loop runs to the capacity and gives false
DB_scan_failed(d) == [ret |-> FALSE, db |-> [d EXCEPT !.file_.fail = TRUE]]

\* the loop of create_driver, create_vehicle and create_trip from slot i on
RECURSIVE DB_create_scan(_, _, _, _)
DB_create_scan(d, table, record, i) ==
    IF i >= DB_capacity(d, table) THEN [ret |-> FALSE, db |-> DB_scanned(d, table)]
    ELSE IF DB_is_free(table, DB_read(d, table, DB_slot_offset(d, table, i),
                                      DB_local(table)))
    THEN [ret |-> TRUE, db |-> DB_write(d, table, DB_slot_offset(d, table, i), record)]
    ELSE IF ~DB_can_read(d, table, DB_slot_offset(d, table, i)) THEN DB_scan_failed(d)
    ELSE DB_create_scan(d, table, record, i + 1)

DB_create_record(d, table, record) ==
    IF ~d.is_open_ THEN [ret |-> FALSE, db |-> d]
    ELSE DB_create_scan(d, table, record, 0)

\* the loop of read_driver, read_vehicle and read_trip from slot i on; into
\* is the record of the caller, which every read overwrites
RECURSIVE DB_read_scan(_, _, _, _, _)
RECURSIVE DB_read_slot(_, _, _, _, _)

\* read is what the read of slot i left in the record of the caller
DB_read_slot(d, table, id, read, i) ==
    IF DB_matches(table, read, id)
    THEN [ret |-> TRUE, record |-> read, db |-> DB_scanned(d, table)]
    ELSE IF ~DB_can_read(d, table, DB_slot_offset(d, table, i))
    THEN [ret |-> FALSE, record |-> read, db |-> DB_scan_failed(d).db]
    ELSE DB_read_scan(d, table, id, read, i + 1)

DB_read_scan(d, table, id, into, i) ==
    IF i >= DB_capacity(d, table)
    THEN [ret |-> FALSE, record |-> into, db |-> DB_scanned(d, table)]
    ELSE DB_read_slot(d, table, id,
                      DB_read(d, table, DB_slot_offset(d, table, i), into), i)

DB_read_record(d, table, id, into) ==
    IF ~d.is_open_ THEN [ret |-> FALSE, record |-> into, db |-> d]
    ELSE DB_read_scan(d, table, id, into, 0)

\* the loop of update_driver, update_vehicle and update_trip from slot i on
RECURSIVE DB_update_scan(_, _, _, _)
DB_update_scan(d, table, record, i) ==
    IF i >= DB_capacity(d, table) THEN [ret |-> FALSE, db |-> DB_scanned(d, table)]
    ELSE IF DB_matches(table, DB_read(d, table, DB_slot_offset(d, table, i),
                                      DB_local(table)),
                       DB_id(table, record))
    THEN [ret |-> TRUE, db |-> DB_write(d, table, DB_slot_offset(d, table, i), record)]
    ELSE IF ~DB_can_read(d, table, DB_slot_offset(d, table, i)) THEN DB_scan_failed(d)
    ELSE DB_update_scan(d, table, record, i + 1)

DB_update_record(d, table, record) ==
    IF ~d.is_open_ THEN [ret |-> FALSE, db |-> d]
    ELSE DB_update_scan(d, table, record, 0)

\* the loop of delete_driver and delete_vehicle from slot i on
RECURSIVE DB_delete_scan(_, _, _, _)
RECURSIVE DB_delete_slot(_, _, _, _, _)

\* read is the local record after the read of slot i
DB_delete_slot(d, table, id, read, i) ==
    IF DB_matches(table, read, id)
    THEN [ret |-> TRUE,
          db |-> DB_write(d, table, DB_slot_offset(d, table, i),
                          [read EXCEPT !.is_active = 0])]
    ELSE IF ~DB_can_read(d, table, DB_slot_offset(d, table, i)) THEN DB_scan_failed(d)
    ELSE DB_delete_scan(d, table, id, i + 1)

DB_delete_scan(d, table, id, i) ==
    IF i >= DB_capacity(d, table) THEN [ret |-> FALSE, db |-> DB_scanned(d, table)]
    ELSE DB_delete_slot(d, table, id,
                        DB_read(d, table, DB_slot_offset(d, table, i), DB_local(table)),
                        i)

DB_delete_record(d, table, id) ==
    IF ~d.is_open_ THEN [ret |-> FALSE, db |-> d]
    ELSE DB_delete_scan(d, table, id, 0)

create_driver(d, driver) == DB_create_record(d, "drivers", driver)

read_driver(d, driver_id, driver) == DB_read_record(d, "drivers", driver_id, driver)

update_driver(d, driver) == DB_update_record(d, "drivers", driver)

delete_driver(d, driver_id) == DB_delete_record(d, "drivers", driver_id)

create_vehicle(d, vehicle) == DB_create_record(d, "vehicles", vehicle)

read_vehicle(d, vehicle_id, vehicle) ==
    DB_read_record(d, "vehicles", vehicle_id, vehicle)

update_vehicle(d, vehicle) == DB_update_record(d, "vehicles", vehicle)

delete_vehicle(d, vehicle_id) == DB_delete_record(d, "vehicles", vehicle_id)

create_trip(d, trip) == DB_create_record(d, "trips", trip)

read_trip(d, trip_id, trip) == DB_read_record(d, "trips", trip_id, trip)

update_trip(d, trip) == DB_update_record(d, "trips", trip)

\* no call on the DatabaseManager yet; prev is the call before the last one,
\* prev_ret what it returned,
\* and config the configuration of the create() that wrote the file, if any
DB_NoCall ==
    [op |-> "none", prev |-> "none", prev_ret |-> FALSE, table |-> "",
     ret |-> FALSE, id |-> 0,
     record |-> << >>, config |-> << >>, calls |-> 0]

\* no worker thread is inside a call on the store; where calls do not
\* interleave, every read and write follows its own seek and the position of
\* the stream is not kept.  pos_by and pos_op: the thread and the call that
\* moved the position last.  The counters of generate_trip_id and
\* generate_vehicle_id are statics initialised to 1; no trip is active and
\* the vehicle cache is empty.
TH_none ==
    [pos |-> 0, pos_by |-> 0, pos_op |-> "none", t |-> << >>,
     trip_counter |-> 1, vehicle_counter |-> 1,
     active_trips_ |-> << >>, vehicle_cache_ |-> {}]

(***************************************************************************)
(* The index objects after IndexManager::open_indexes() on index files     *)
(* that an earlier run created; a behaviour exercises one of them (they    *)
(* share no state).                                                        *)
(***************************************************************************)
Init ==
    /\ focus \in {"primary", "vehicle_plate"}
    /\ bt = BT_opened
    /\ bt_inserted = {}
    /\ bt_last = NoCall
    /\ bp = BP_opened
    /\ bp_inserted = {}
    /\ bp_last = BP_NoCall
    /\ ninserts = 0
    /\ im = IndexManager_new
    /\ im_last = IM_NoCall
    /\ db = DatabaseManager_new
    /\ db_last = DB_NoCall
    /\ th = TH_none

Next ==
    \/ BTLoadUp \/ BTLoadDown \/ BTInsert \/ BTSearch \/ BTRangeQuery
    \/ BTRangeQueryPrimary
    \/ BPLoadUp \/ BPLoadDown \/ BPInsert \/ BPSearch \/ BPScanAll

Spec == Init /\ [][Next]_vars

(***************************************************************************)
(* The life of an index object from its construction on: create(), open()  *)
(* and close() in any order (IndexManager::create_indexes calls create()   *)
(* and then open() on the same object), before and after a load.  The      *)
(* history of inserts starts again when create() makes a new file.         *)
(* ninserts counts the inserts of the behaviour.  As the index manager     *)
(* does, a behaviour inserts and searches while the tree is open.          *)
(***************************************************************************)
\* inserts of a behaviour
LifeInserts == 21

\* the numbers of inserts made after which create(), open() and close() are
\* called: none, and as many as have split the root of either tree
LifeAt == {0, BPlusNode_MAX_KEYS + 1}

\* what search gave: whether it found the key and, if so, which value;
\* ended: the call never returned
SearchSeen(s) ==
    [found |-> s.found, result |-> IF s.found THEN << s.result >> ELSE << >>]

\* what the callers of the B-Tree see of it: the root offset, the entry
\* count and the height of the metadata, what search gives for the keys
\* inserted and for the keys a search may carry, and what range_query gives
BT_observed(t, inserted) ==
    [root_offset |-> t.metadata_.root_offset,
     total_records |-> t.metadata_.total_records,
     tree_height |-> t.metadata_.tree_height,
     search |-> [key \in {e.key : e \in inserted} \cup
                         {KeyAt(n) : n \in BT_search_keys(inserted)} |->
                    SearchSeen(BT_search(t, key, BTreeValue_new))],
     range_query |-> [b \in BT_range_bounds(inserted) |->
                        BT_range_query(t, KeyAt(b[1]), KeyAt(b[2])).results]]

\* what the callers of the B+-Tree see of it
BP_observed(t, inserted) ==
    [root_offset |-> t.metadata_.root_offset,
     total_entries |-> t.metadata_.total_entries,
     tree_height |-> t.metadata_.tree_height,
     search |-> [key \in {e.key : e \in inserted} \cup
                         {BPlusKey(PlateAt(n)) : n \in BP_search_keys(inserted)} |->
                    SearchSeen(BP_search(t, key, BPlusValue_new))],
     scan_all |-> BP_scan_all(t).results]

\* the history of a create(), c being what it gave
BTCreateDone(c) ==
    /\ bt' = c.t
    /\ bt_inserted' = IF c.ret THEN {} ELSE bt_inserted
    /\ bt_last' = [NoCall EXCEPT !.op = "create", !.ret = c.ret]

\* BTree::create
BTCreate ==
    /\ focus = "primary"
    /\ ~bt.crashed
    /\ ninserts \in LifeAt
    /\ \E fs_ok \in BOOLEAN : BTCreateDone(BT_create(bt, fs_ok))
    /\ UNCHANGED << focus, ninserts, bp_vars, im_vars, db_vars, th >>

\* the history of an open(), o being what it gave
BTOpenDone(o) ==
    /\ bt' = o.t
    /\ bt_last' = [NoCall EXCEPT !.op = "open", !.ret = o.ret]

\* BTree::open
BTOpen ==
    /\ focus = "primary"
    /\ ~bt.crashed
    /\ ninserts \in LifeAt
    /\ BTOpenDone(BT_open(bt))
    /\ UNCHANGED << focus, bt_inserted, ninserts, bp_vars, im_vars, db_vars, th >>

\* BTree::close; the history keeps what the callers saw of the tree before
\* the call and whether it was open
BTClose ==
    /\ focus = "primary"
    /\ ~bt.crashed
    /\ ninserts \in LifeAt
    /\ bt' = BT_close(bt)
    /\ bt_last' = [NoCall EXCEPT !.op = "close",
                                 !.ret = bt.is_open,
                                 !.results = << BT_observed(bt, bt_inserted) >>]
    /\ UNCHANGED << focus, bt_inserted, ninserts, bp_vars, im_vars, db_vars, th >>

BTLifeLoadUp ==
    /\ bt.is_open
    /\ ninserts < LifeInserts
    /\ BT_load_up(LifeInserts)
    /\ ninserts' = ninserts + 1
    /\ UNCHANGED << focus, bp_vars, im_vars, db_vars, th >>

BTLifeLoadDown ==
    /\ bt.is_open
    /\ ninserts < LifeInserts
    /\ BT_load_down(LifeInserts)
    /\ ninserts' = ninserts + 1
    /\ UNCHANGED << focus, bp_vars, im_vars, db_vars, th >>

BTLifeSearch ==
    /\ bt.is_open
    /\ BT_search_any
    /\ UNCHANGED << focus, bt_inserted, ninserts, bp_vars, im_vars, db_vars, th >>

\* the history of a create(), c being what it gave
BPCreateDone(c) ==
    /\ bp' = c.t
    /\ bp_inserted' = IF c.ret THEN {} ELSE bp_inserted
    /\ bp_last' = [BP_NoCall EXCEPT !.op = "create", !.ret = c.ret]

\* BPlusTree::create
BPCreate ==
    /\ focus = "vehicle_plate"
    /\ ninserts \in LifeAt
    /\ \E fs_ok \in BOOLEAN : BPCreateDone(BP_create(bp, fs_ok))
    /\ UNCHANGED << focus, ninserts, bt_vars, im_vars, db_vars, th >>

\* the history of an open(), o being what it gave
BPOpenDone(o) ==
    /\ bp' = o.t
    /\ bp_last' = [BP_NoCall EXCEPT !.op = "open", !.ret = o.ret]

\* BPlusTree::open
BPOpen ==
    /\ focus = "vehicle_plate"
    /\ ninserts \in LifeAt
    /\ BPOpenDone(BP_open(bp))
    /\ UNCHANGED << focus, bp_inserted, ninserts, bt_vars, im_vars, db_vars, th >>

\* BPlusTree::close; the history keeps what the callers saw of the tree
\* before the call and whether it was open
BPClose ==
    /\ focus = "vehicle_plate"
    /\ ninserts \in LifeAt
    /\ bp' = BP_close(bp)
    /\ bp_last' = [BP_NoCall EXCEPT !.op = "close",
                                    !.ret = bp.is_open,
                                    !.results = << BP_observed(bp, bp_inserted) >>]
    /\ UNCHANGED << focus, bp_inserted, ninserts, bt_vars, im_vars, db_vars, th >>

BPLifeLoadUp ==
    /\ bp.is_open
    /\ ninserts < LifeInserts
    /\ BP_load_up(LifeInserts)
    /\ ninserts' = ninserts + 1
    /\ UNCHANGED << focus, bt_vars, im_vars, db_vars, th >>

BPLifeLoadDown ==
    /\ bp.is_open
    /\ ninserts < LifeInserts
    /\ BP_load_down(LifeInserts)
    /\ ninserts' = ninserts + 1
    /\ UNCHANGED << focus, bt_vars, im_vars, db_vars, th >>

BPLifeSearch ==
    /\ bp.is_open
    /\ BP_search_any
    /\ UNCHANGED << focus, bp_inserted, ninserts, bt_vars, im_vars, db_vars, th >>

BPLifeScanAll ==
    /\ bp.is_open
    /\ BP_scan_any
    /\ UNCHANGED << focus, bp_inserted, ninserts, bt_vars, im_vars, db_vars, th >>

\* the index objects as IndexManager::IndexManager constructs them
InitLifecycle ==
    /\ focus \in {"primary", "vehicle_plate"}
    /\ bt = BTree_new
    /\ bt_inserted = {}
    /\ bt_last = NoCall
    /\ bp = BPlusTree_new("vehicle_plate")
    /\ bp_inserted = {}
    /\ bp_last = BP_NoCall
    /\ ninserts = 0
    /\ im = IndexManager_new
    /\ im_last = IM_NoCall
    /\ db = DatabaseManager_new
    /\ db_last = DB_NoCall
    /\ th = TH_none

NextLifecycle ==
    \/ BTCreate \/ BTOpen \/ BTClose \/ BTLifeLoadUp \/ BTLifeLoadDown \/ BTLifeSearch
    \/ BPCreate \/ BPOpen \/ BPClose \/ BPLifeLoadUp \/ BPLifeLoadDown \/ BPLifeSearch
    \/ BPLifeScanAll

SpecLifecycle == InitLifecycle /\ [][NextLifecycle]_vars

(***************************************************************************)
(* The ascending load of one entity kind: the keys (3, i, i, 0) for        *)
(* i = 1, 2, ... in this order, each with its own record offset, and the   *)
(* search of a key once the load is complete.                              *)
(***************************************************************************)
\* keys of the ascending load
ScenarioKeys == 1000

ScenarioKey(i) == CompositeKey(3, i, i, 0)

ScenarioOffset(i) == 1024 * i

\* IndexManager::insert_primary of the next key of the load
ScenarioInsert ==
    /\ focus = "scenario"
    /\ ~bt.crashed
    /\ ninserts < ScenarioKeys
    /\ BTInsertRecord(ScenarioKey(ninserts + 1), ScenarioOffset(ninserts + 1))
    /\ ninserts' = ninserts + 1
    /\ UNCHANGED << focus, bp_vars, im_vars, db_vars, th >>

\* IndexManager::search_primary of the key in the middle of the load
ScenarioSearch ==
    /\ focus = "scenario"
    /\ ~bt.crashed
    /\ ninserts = ScenarioKeys
    /\ BTSearchKey(ScenarioKey(ScenarioKeys \div 2))
    /\ UNCHANGED << focus, bt_inserted, ninserts, bp_vars, im_vars, db_vars, th >>

InitScenario ==
    /\ focus = "scenario"
    /\ bt = BT_opened
    /\ bt_inserted = {}
    /\ bt_last = NoCall
    /\ bp = BP_opened
    /\ bp_inserted = {}
    /\ bp_last = BP_NoCall
    /\ ninserts = 0
    /\ im = IndexManager_new
    /\ im_last = IM_NoCall
    /\ db = DatabaseManager_new
    /\ db_last = DB_NoCall
    /\ th = TH_none

NextScenario == ScenarioInsert \/ ScenarioSearch

SpecScenario == InitScenario /\ [][NextScenario]_vars

(***************************************************************************)
(* The vocabulary of the properties.  The B-Tree object holds a node at    *)
(* an offset when it has a cached copy for it or the offset is a page of   *)
(* its file, and the cached copy is the one it reads; the B+-Tree has no   *)
(* cache.                                                                  *)
(***************************************************************************)
BT_offsets(t) ==
    {t.cache_[i].offset : i \in 1..Len(t.cache_)} \cup
    {PAGE_SIZE * i : i \in 1..Len(t.nodes)}

BT_node(t, offset) ==
    IF BT_cache_find(t, offset) # 0 THEN t.cache_[BT_cache_find(t, offset)].node
    ELSE NodeAt(t, offset)

BP_offsets(t) == {PAGE_SIZE * i : i \in 1..Len(t.nodes)}

BP_node(t, offset) == NodeAt(t, offset)

\* the child offsets an internal node uses
ChildrenOf(node) == {node.child_offsets[i] : i \in 0..node.key_count}

\* the offsets d levels below the root
RECURSIVE BT_level(_, _)
BT_level(t, d) ==
    IF d = 0 THEN {t.metadata_.root_offset}
    ELSE UNION {ChildrenOf(BT_node(t, o)) :
                  o \in {x \in BT_level(t, d - 1) \cap BT_offsets(t) :
                           ~BTreeNode_is_leaf(BT_node(t, x))}}

RECURSIVE BP_level(_, _)
BP_level(t, d) ==
    IF d = 0 THEN {t.metadata_.root_offset}
    ELSE UNION {ChildrenOf(BP_node(t, o)) :
                  o \in {x \in BP_level(t, d - 1) \cap BP_offsets(t) :
                           ~BPlusNode_is_leaf(BP_node(t, x))}}

\* every path from the root ends in a leaf exactly tree_height levels down
BT_balanced(t) ==
    /\ \A d \in 0..t.metadata_.tree_height : BT_level(t, d) \subseteq BT_offsets(t)
    /\ \A d \in 0..(t.metadata_.tree_height - 1) :
         \A o \in BT_level(t, d) : ~BTreeNode_is_leaf(BT_node(t, o))
    /\ \A o \in BT_level(t, t.metadata_.tree_height) : BTreeNode_is_leaf(BT_node(t, o))

BP_balanced(t) ==
    /\ \A d \in 0..t.metadata_.tree_height : BP_level(t, d) \subseteq BP_offsets(t)
    /\ \A d \in 0..(t.metadata_.tree_height - 1) :
         \A o \in BP_level(t, d) : ~BPlusNode_is_leaf(BP_node(t, o))
    /\ \A o \in BP_level(t, t.metadata_.tree_height) : BPlusNode_is_leaf(BP_node(t, o))

\* the offsets reached from the root through child offsets in at most d steps
RECURSIVE BT_reached(_, _)
BT_reached(t, d) ==
    IF d = 0 THEN BT_level(t, 0) ELSE BT_reached(t, d - 1) \cup BT_level(t, d)

RECURSIVE BP_reached(_, _)
BP_reached(t, d) ==
    IF d = 0 THEN BP_level(t, 0) ELSE BP_reached(t, d - 1) \cup BP_level(t, d)

\* the keys of the history are pairwise distinct
DistinctKeys(inserted) == \A e \in inserted : \A f \in inserted : e.key = f.key => e = f

\* the elements of a sequence
Range(seq) == {seq[i] : i \in 1..Len(seq)}

(***************************************************************************)
(* The properties                                                          *)
(***************************************************************************)
\* C1: immediately after an insert(key, value) that returned true on an open
\* tree, whatever inserts came before (earlier inserts of the same key
\* included), search(key) returns true and yields exactly that value; for
\* the B-Tree and for the B+-Tree.
C1_RoundTrip ==
    /\ (focus = "primary" /\ bt_last.op = "insert" /\ bt_last.ret) =>
          /\ BT_search(bt, bt_last.key, BTreeValue_new).found
          /\ BT_search(bt, bt_last.key, BTreeValue_new).result = bt_last.value
    /\ (focus = "vehicle_plate" /\ bp_last.op = "insert" /\ bp_last.ret) =>
          /\ BP_search(bp, bp_last.key, BPlusValue_new).found
          /\ BP_search(bp, bp_last.key, BPlusValue_new).result = bp_last.value

\* C2: after any sequence of inserts of pairwise distinct keys into the
\* B-Tree, search(k) returns true with the value inserted for k for every
\* key k inserted so far, and it returns false for the keys next to the
\* inserted ones that were never inserted.
C2_NoLostEntry ==
    (focus = "primary" /\ DistinctKeys(bt_inserted)) =>
        /\ \A e \in bt_inserted :
             /\ BT_search(bt, e.key, BTreeValue_new).found
             /\ BT_search(bt, e.key, BTreeValue_new).result = e.value
        /\ \A n \in BT_search_keys(bt_inserted) \ BT_indices(bt_inserted) :
             ~BT_search(bt, KeyAt(n), BTreeValue_new).found

\* the entries of the history with a key from low to high
BT_within(inserted, low, high) ==
    {e \in inserted : CK_ge(e.key, low) /\ CK_le(e.key, high)}

\* the entry of the history that an insert stored with record_offset
BT_entry_of(inserted, record_offset) ==
    CHOOSE e \in inserted : e.value.record_offset = record_offset

\* C3: range_query(low, high) returns exactly the inserted entries with
\* low <= key <= high, each once, in ascending key order; and
\* range_query_primary returns exactly the record offsets of the entries of
\* one entity within a timestamp interval, each once, in ascending key order.
C3_RangeCorrect ==
    /\ (focus = "primary" /\ bt_last.op = "range_query") =>
          /\ Range(bt_last.results) = BT_within(bt_inserted, bt_last.key, bt_last.key2)
          /\ Len(bt_last.results) =
                Cardinality(BT_within(bt_inserted, bt_last.key, bt_last.key2))
          /\ \A i \in 1..(Len(bt_last.results) - 1) :
                CK_le(bt_last.results[i].key, bt_last.results[i + 1].key)
    /\ (focus = "primary" /\ bt_last.op = "range_query_primary") =>
          /\ Range(bt_last.results) =
                {e.value.record_offset :
                    e \in BT_within(bt_inserted, bt_last.key, bt_last.key2)}
          /\ Len(bt_last.results) =
                Cardinality(BT_within(bt_inserted, bt_last.key, bt_last.key2))
          /\ \A i \in 1..(Len(bt_last.results) - 1) :
                CK_le(BT_entry_of(bt_inserted, bt_last.results[i]).key,
                      BT_entry_of(bt_inserted, bt_last.results[i + 1]).key)

\* C4: scan_all() returns every entry inserted so far, as many entries as
\* inserts succeeded and as get_total_entries() tells, in non-decreasing key
\* order.
C4_ScanAll ==
    (focus = "vehicle_plate" /\ bp_last.op = "scan_all") =>
        /\ Range(bp_last.results) = bp_inserted
        /\ Len(bp_last.results) = Cardinality(bp_inserted)
        /\ Len(bp_last.results) = bp.metadata_.total_entries
        /\ \A i \in 1..(Len(bp_last.results) - 1) :
              BK_le(bp_last.results[i].key, bp_last.results[i + 1].key)

\* C5: in either tree every leaf is at the same depth from the root, that
\* depth is the tree_height of the metadata, and tree_height is 0 for a
\* freshly created tree.
C5_Balance ==
    /\ (focus = "primary" /\ bt.is_open /\ ~bt.crashed) => BT_balanced(bt)
    /\ (focus = "primary" /\ bt_last.op = "create" /\ bt_last.ret) =>
          bt.metadata_.tree_height = 0
    /\ (focus = "vehicle_plate" /\ bp.is_open) => BP_balanced(bp)
    /\ (focus = "vehicle_plate" /\ bp_last.op = "create" /\ bp_last.ret) =>
          bp.metadata_.tree_height = 0

\* C6: in every reachable state of either tree every node has a key_count
\* from 0 to MAX_KEYS, and every internal node has key_count + 1 child
\* offsets that are non-zero and pairwise distinct.
C6_NodeShape ==
    /\ (focus = "primary" /\ ~bt.crashed) =>
          \A o \in BT_offsets(bt) :
             /\ BT_node(bt, o).key_count \in 0..BTreeNode_MAX_KEYS
             /\ ~BTreeNode_is_leaf(BT_node(bt, o)) =>
                   /\ 0 \notin ChildrenOf(BT_node(bt, o))
                   /\ Cardinality(ChildrenOf(BT_node(bt, o)))
                         = BT_node(bt, o).key_count + 1
    /\ focus = "vehicle_plate" =>
          \A o \in BP_offsets(bp) :
             /\ BP_node(bp, o).key_count \in 0..BPlusNode_MAX_KEYS
             /\ ~BPlusNode_is_leaf(BP_node(bp, o)) =>
                   /\ 0 \notin ChildrenOf(BP_node(bp, o))
                   /\ Cardinality(ChildrenOf(BP_node(bp, o)))
                         = BP_node(bp, o).key_count + 1

\* C7: after create() the root offset of the metadata designates a leaf with
\* zero keys; and in an open tree it designates a node that is the child of
\* no node and from which every other node is reached through child offsets.
C7_Root ==
    /\ (focus = "primary" /\ bt_last.op = "create" /\ bt_last.ret) =>
          /\ bt.metadata_.root_offset \in BT_offsets(bt)
          /\ BTreeNode_is_leaf(BT_node(bt, bt.metadata_.root_offset))
          /\ BT_node(bt, bt.metadata_.root_offset).key_count = 0
    /\ (focus = "primary" /\ bt.is_open /\ ~bt.crashed) =>
          /\ bt.metadata_.root_offset \in BT_offsets(bt)
          /\ \A o \in BT_offsets(bt) :
                ~BTreeNode_is_leaf(BT_node(bt, o)) =>
                    bt.metadata_.root_offset \notin ChildrenOf(BT_node(bt, o))
          /\ BT_offsets(bt) \subseteq BT_reached(bt, Cardinality(BT_offsets(bt)))
    /\ (focus = "vehicle_plate" /\ bp_last.op = "create" /\ bp_last.ret) =>
          /\ bp.metadata_.root_offset \in BP_offsets(bp)
          /\ BPlusNode_is_leaf(BP_node(bp, bp.metadata_.root_offset))
          /\ BP_node(bp, bp.metadata_.root_offset).key_count = 0
    /\ (focus = "vehicle_plate" /\ bp.is_open) =>
          /\ bp.metadata_.root_offset \in BP_offsets(bp)
          /\ \A o \in BP_offsets(bp) :
                ~BPlusNode_is_leaf(BP_node(bp, o)) =>
                    bp.metadata_.root_offset \notin ChildrenOf(BP_node(bp, o))
          /\ BP_offsets(bp) \subseteq BP_reached(bp, Cardinality(BP_offsets(bp)))

\* C8: in both trees, for every leaf L with next_leaf N # 0 the node N has
\* prev_leaf L, and for every leaf L with prev_leaf P # 0 the node P has
\* next_leaf L.
C8_LeafChain ==
    /\ focus = "primary" =>
          \A o \in BT_offsets(bt) :
             BTreeNode_is_leaf(BT_node(bt, o)) =>
                /\ BT_node(bt, o).next_leaf # 0 =>
                      /\ BT_node(bt, o).next_leaf \in BT_offsets(bt)
                      /\ BT_node(bt, BT_node(bt, o).next_leaf).prev_leaf = o
                /\ BT_node(bt, o).prev_leaf # 0 =>
                      /\ BT_node(bt, o).prev_leaf \in BT_offsets(bt)
                      /\ BT_node(bt, BT_node(bt, o).prev_leaf).next_leaf = o
    /\ focus = "vehicle_plate" =>
          \A o \in BP_offsets(bp) :
             BPlusNode_is_leaf(BP_node(bp, o)) =>
                /\ BP_node(bp, o).next_leaf # 0 =>
                      /\ BP_node(bp, o).next_leaf \in BP_offsets(bp)
                      /\ BP_node(bp, BP_node(bp, o).next_leaf).prev_leaf = o
                /\ BP_node(bp, o).prev_leaf # 0 =>
                      /\ BP_node(bp, o).prev_leaf \in BP_offsets(bp)
                      /\ BP_node(bp, BP_node(bp, o).prev_leaf).next_leaf = o

\* C9: once 19 pairwise distinct keys were inserted into a B+-Tree since its
\* create(), the root is a leaf that holds 19 keys; once the 20th distinct
\* key was inserted, the root is an internal node with 1 key and 2 children
\* and tree_height is 1.
C9_FirstSplit ==
    (focus = "vehicle_plate" /\ bp.is_open /\ DistinctKeys(bp_inserted)) =>
        /\ Cardinality(bp_inserted) = BPlusNode_MAX_KEYS =>
              /\ bp.metadata_.root_offset \in BP_offsets(bp)
              /\ BPlusNode_is_leaf(BP_node(bp, bp.metadata_.root_offset))
              /\ BP_node(bp, bp.metadata_.root_offset).key_count = BPlusNode_MAX_KEYS
        /\ Cardinality(bp_inserted) = BPlusNode_MAX_KEYS + 1 =>
              /\ bp.metadata_.root_offset \in BP_offsets(bp)
              /\ ~BPlusNode_is_leaf(BP_node(bp, bp.metadata_.root_offset))
              /\ BP_node(bp, bp.metadata_.root_offset).key_count = 1
              /\ Cardinality(ChildrenOf(BP_node(bp, bp.metadata_.root_offset))) = 2
              /\ bp.metadata_.tree_height = 1

\* C10: after the keys (3, i, i, 0), i = 1..1000, were inserted in ascending
\* order, each with its own record offset, the search of the key with id
\* 500 returns true and yields the record offset stored for it.
C10_SearchMiddle ==
    (focus = "scenario" /\ bt_last.op = "search") =>
        /\ bt_last.key = ScenarioKey(ScenarioKeys \div 2)
        /\ bt_last.ret
        /\ bt_last.value.record_offset = ScenarioOffset(bt_last.key.primary_id)

\* the entries the leaves of the B-Tree hold
BT_stored(t) ==
    UNION {{[key |-> BT_node(t, o).keys[i], value |-> BT_node(t, o).values[i]] :
              i \in 0..(BT_node(t, o).key_count - 1)} :
           o \in {x \in BT_offsets(t) : BTreeNode_is_leaf(BT_node(t, x))}}

\* the entries the leaves of the B+-Tree hold
BP_stored(t) ==
    UNION {Range(BP_leaf_entries(BP_node(t, o))) :
           o \in {x \in BP_offsets(t) : BPlusNode_is_leaf(BP_node(t, x))}}

\* C11: an insert(k, v2) on a tree whose leaves hold an entry (k, v1) returns
\* true, increases the entry count by one, and leaves both (k, v1) and
\* (k, v2) in the leaves; for the B-Tree and for the B+-Tree.
C11_DuplicateStored ==
    [][/\ (focus = "primary" /\ bt_last'.op = "insert" /\
           (bt_last.op # "insert" \/ bt_last'.value # bt_last.value)) =>
            \A f \in BT_stored(bt) :
               f.key = bt_last'.key =>
                  /\ bt_last'.ret
                  /\ bt'.metadata_.total_records = bt.metadata_.total_records + 1
                  /\ f \in BT_stored(bt')
                  /\ [key |-> bt_last'.key, value |-> bt_last'.value] \in BT_stored(bt')
       /\ (focus = "vehicle_plate" /\ bp_last'.op = "insert" /\
           (bp_last.op # "insert" \/ bp_last'.value # bp_last.value)) =>
            \A f \in BP_stored(bp) :
               f.key = bp_last'.key =>
                  /\ bp_last'.ret
                  /\ bp'.metadata_.total_entries = bp.metadata_.total_entries + 1
                  /\ f \in BP_stored(bp')
                  /\ [key |-> bp_last'.key, value |-> bp_last'.value] \in BP_stored(bp')
      ]_vars

(***************************************************************************)
(* The life of an IndexManager: create_indexes(), open_indexes(),          *)
(* close_all(), inserts and searches through the facade, and the rebuilds  *)
(* of the secondary indexes.  The index files of an earlier run may exist. *)
(***************************************************************************)
\* number of calls on the facade in a behaviour
FacadeCalls == 4

\* the lengths of the lists the rebuilds are given
RebuildSizes == {3, BPlusNode_MIN_KEYS + 1}

\* the list of the first n drivers, and of the first n vehicles
DriverList(n) ==
    [i \in 1..n |-> [driver_id |-> i, email |-> PlateAt(PlateBase + i),
                     username |-> PlateAt(PlateBase - i)]]

VehicleList(n) ==
    [i \in 1..n |-> [vehicle_id |-> i, license_plate |-> PlateAt(PlateBase + i)]]

\* the file create() and close() leave
BT_created_file == BT_on_file(BT_close(BT_create(BTree_new, TRUE).t))

BP_created_file(index_name) ==
    BP_on_file(BP_close(BP_create(BPlusTree_new(index_name), TRUE).t), index_name)

\* an IndexManager constructed where the index files of present exist
IM_with_files(present) ==
    [primary_index_ |->
        IF "primary_index_" \in present THEN BT_created_file ELSE BTree_new,
     driver_email_index_ |->
        IF "driver_email_index_" \in present THEN BP_created_file("driver_email")
        ELSE BPlusTree_new("driver_email"),
     vehicle_plate_index_ |->
        IF "vehicle_plate_index_" \in present THEN BP_created_file("vehicle_plate")
        ELSE BPlusTree_new("vehicle_plate"),
     driver_username_index_ |->
        IF "driver_username_index_" \in present THEN BP_created_file("driver_username")
        ELSE BPlusTree_new("driver_username"),
     held |-> {}]

\* the indexes whose file open() would refuse: no file, or another magic tag
IM_unopenable(m) ==
    {name \in IndexNames :
        \/ ~m[name].exists
        \/ m[name].disk_meta.magic #
              (IF name = "primary_index_" THEN "BTREE001" ELSE "BPLUS001")}

\* the number of entries the index name tells
IM_count(m, name) ==
    IF name = "primary_index_" THEN m[name].metadata_.total_records
    ELSE m[name].metadata_.total_entries

IMCall(op, ret, failing, name, n) ==
    /\ focus = "facade"
    /\ ninserts < FacadeCalls
    /\ ninserts' = ninserts + 1
    /\ im_last' = [op |-> op, ret |-> ret, failing |-> failing, name |-> name,
                   n |-> n, calls |-> ninserts + 1]
    /\ UNCHANGED << focus, bt_vars, bp_vars, db_vars, th >>

IMCreateDone(r, failing) ==
    /\ im' = r.im
    /\ IMCall("create_indexes", r.ret, failing, "", 0)

\* create_indexes(), the file system refusing the files of failing
IMCreateIndexes ==
    \E failing \in {S \in SUBSET IndexNames : Cardinality(S) <= 1} :
        IMCreateDone(IM_create_indexes(im, [name \in IndexNames |-> name \notin failing]),
                     failing)

IMOpenDone(r, failing) ==
    /\ im' = r.im
    /\ IMCall("open_indexes", r.ret, failing, "", 0)

IMOpenIndexes == IMOpenDone(IM_open_indexes(im), IM_unopenable(im))

IMCloseAll ==
    /\ im' = IM_close_all(im)
    /\ IMCall("close_all", TRUE, {}, "", 0)

IMInsertDone(r, name) ==
    /\ im' = r.im
    /\ IMCall("insert", r.ret, {}, name, 0)

\* insert_driver_email, insert_driver_username, insert_vehicle_plate and
\* insert_primary
IMInsert ==
    \/ IMInsertDone(IM_insert_driver_email(im, PlateAt(PlateBase), 1),
                    "driver_email_index_")
    \/ IMInsertDone(IM_insert_driver_username(im, PlateAt(PlateBase), 1),
                    "driver_username_index_")
    \/ IMInsertDone(IM_insert_plate(im, PlateAt(PlateBase), 1), "vehicle_plate_index_")
    \/ IMInsertDone(IM_insert_primary_checked(im, 3, 1, 1, 1024), "primary_index_")

IMSearchDone(r, name) ==
    /\ im' = r.im
    /\ IMCall("search", r.found, {}, name, 0)

\* search_by_email, search_by_username and search_by_plate
IMSearch ==
    \E name \in IndexNames \ {"primary_index_"} :
        IMSearchDone(IM_search_secondary(im, name, PlateAt(PlateBase), 0), name)

IMRebuildDone(r, op, n) ==
    /\ im' = r.im
    /\ IMCall(op, r.ret, {}, "", n)

IMRebuildDrivers ==
    \E n \in RebuildSizes :
        IMRebuildDone(IM_rebuild_driver_indexes(im, DriverList(n)),
                      "rebuild_driver_indexes", n)

IMRebuildVehicles ==
    \E n \in RebuildSizes :
        IMRebuildDone(IM_rebuild_vehicle_indexes(im, VehicleList(n)),
                      "rebuild_vehicle_indexes", n)

InitFacade ==
    /\ focus = "facade"
    /\ bt = BTree_new
    /\ bt_inserted = {}
    /\ bt_last = NoCall
    /\ bp = BPlusTree_new("vehicle_plate")
    /\ bp_inserted = {}
    /\ bp_last = BP_NoCall
    /\ ninserts = 0
    /\ \E present \in {{}, IndexNames, IndexNames \ {"driver_email_index_"},
                       {"primary_index_"}} :
          im = IM_with_files(present)
    /\ im_last = IM_NoCall
    /\ db = DatabaseManager_new
    /\ db_last = DB_NoCall
    /\ th = TH_none

NextFacade ==
    \/ IMCreateIndexes \/ IMOpenIndexes \/ IMCloseAll
    \/ IMInsert \/ IMSearch
    \/ IMRebuildDrivers \/ IMRebuildVehicles

SpecFacade == InitFacade /\ [][NextFacade]_vars

\* the places of the leaves of a B+ tree where an entry of key str is stored
BP_places(t, str) ==
    {<< o, i >> \in BP_offsets(t) \X (0..BPlusNode_MAX_KEYS - 1) :
        /\ BPlusNode_is_leaf(BP_node(t, o))
        /\ i < BP_node(t, o).key_count
        /\ BP_node(t, o).keys[i] = BPlusKey(str)}

\* index name is held by the facade and was opened for reading and writing
IM_usable(m, name) ==
    /\ name \in m.held
    /\ m[name].is_open
    /\ m[name].readable

\* the step is the second of two successive calls of the rebuild op over
\* the same list of n records, the first of which found index name empty
IM_second_rebuild(op, name) ==
    /\ im_last'.calls # im_last.calls
    /\ im_last'.op = op
    /\ im_last.op = op
    /\ im_last'.n = im_last.n
    /\ IM_usable(im, name)
    /\ IM_count(im, name) = im_last.n

\* C12: a rebuild is not idempotent: when rebuild_vehicle_indexes or
\* rebuild_driver_indexes is called a second time over the same n records,
\* each index it fills goes from n to 2n entries and holds every key of the
\* list in two entries.
C12_RebuildTwice ==
    [][/\ IM_second_rebuild("rebuild_vehicle_indexes", "vehicle_plate_index_") =>
            /\ IM_count(im', "vehicle_plate_index_") = 2 * im_last'.n
            /\ \A i \in 1..im_last'.n :
                  Cardinality(BP_places(im'.vehicle_plate_index_,
                                        VehicleList(im_last'.n)[i].license_plate)) = 2
       /\ IM_second_rebuild("rebuild_driver_indexes", "driver_email_index_") =>
            /\ IM_count(im', "driver_email_index_") = 2 * im_last'.n
            /\ \A i \in 1..im_last'.n :
                  Cardinality(BP_places(im'.driver_email_index_,
                                        DriverList(im_last'.n)[i].email)) = 2
       /\ IM_second_rebuild("rebuild_driver_indexes", "driver_username_index_") =>
            /\ IM_count(im', "driver_username_index_") = 2 * im_last'.n
            /\ \A i \in 1..im_last'.n :
                  Cardinality(BP_places(im'.driver_username_index_,
                                        DriverList(im_last'.n)[i].username)) = 2
      ]_vars

\* C12 where no leaf is split: lists of 3 records
C12small_RebuildTwice ==
    [][/\ (IM_second_rebuild("rebuild_vehicle_indexes", "vehicle_plate_index_") /\
           im_last'.n = 3) =>
            /\ IM_count(im', "vehicle_plate_index_") = 6
            /\ \A i \in 1..3 :
                  Cardinality(BP_places(im'.vehicle_plate_index_,
                                        VehicleList(3)[i].license_plate)) = 2
      ]_vars

\* C13: create_indexes() and open_indexes() are all or nothing in what they
\* return: true only when the create (if any) and the open of each of the
\* four indexes succeeded, and false as soon as a single one fails.
C13_AllOrNothing ==
    im_last.op \in {"create_indexes", "open_indexes"} =>
        /\ im_last.ret =>
              /\ im_last.failing = {}
              /\ \A name \in IndexNames : name \in im.held /\ im[name].is_open
        /\ im_last.failing # {} => ~im_last.ret

\* open_indexes() opened the primary index, failed on a later one and
\* returned false
C13_Witness ==
    /\ im_last.op = "open_indexes"
    /\ ~im_last.ret
    /\ im_last.failing # {}
    /\ "primary_index_" \in im.held
    /\ im.primary_index_.is_open

\* index name was not successfully created or opened: the facade never made
\* an object for it, or the open of its object failed
IM_not_open(m, name) ==
    \/ name \notin m.held
    \/ ~m[name].is_open /\ m[name].metadata_.root_offset = 0

\* the pages and the entry count of index name
IM_contents(m, name) == << m[name].nodes, IM_count(m, name) >>

\* C14: an insert or a search on an index that was not successfully created
\* or opened returns false and leaves the entry count and the contents of
\* the index as they were.
C14_NotOpen ==
    [][(/\ im_last'.calls # im_last.calls
        /\ im_last'.op \in {"insert", "search"}
        /\ IM_not_open(im, im_last'.name)) =>
            /\ ~im_last'.ret
            /\ IM_contents(im', im_last'.name) = IM_contents(im, im_last'.name)
      ]_vars

\* C14 for the searches and for the inserts into the primary index
C14search_NotOpen ==
    [][(/\ im_last'.calls # im_last.calls
        /\ \/ im_last'.op = "search"
           \/ im_last'.op = "insert" /\ im_last'.name = "primary_index_"
        /\ IM_not_open(im, im_last'.name)) =>
            /\ ~im_last'.ret
            /\ IM_contents(im', im_last'.name) = IM_contents(im, im_last'.name)
      ]_vars

(***************************************************************************)
(* The life of a DatabaseManager: create(config), open(), close(), the     *)
(* end of the process and a new one on the same file, and the operations   *)
(* on the records of the driver, vehicle and trip tables.                  *)
(***************************************************************************)
\* number of calls on the store in a behaviour
HeapCalls == 5

\* the ids of the records, and the values of their other field
HeapIds == 0..1

HeapValues == 0..1

\* the configurations create() is given
HeapConfigs == {SDMConfig(2, 2, 1), SDMConfig(1, 1, 2)}

Drivers ==
    {[DriverProfile_new EXCEPT !.driver_id = id, !.total_trips = v] :
        id \in HeapIds, v \in HeapValues}

Vehicles ==
    {[VehicleInfo_new EXCEPT !.vehicle_id = id, !.owner_driver_id = v] :
        id \in HeapIds, v \in HeapValues}

Trips ==
    {[TripRecord_new EXCEPT !.trip_id = id, !.driver_id = v] :
        id \in HeapIds, v \in HeapValues}

DBCall(op, table, ret, id, record, config) ==
    /\ focus = "heap"
    /\ ninserts < HeapCalls
    /\ ninserts' = ninserts + 1
    /\ db_last' = [op |-> op, prev |-> db_last.op, prev_ret |-> db_last.ret,
                   table |-> table, ret |-> ret,
                   id |-> id, record |-> record, config |-> config,
                   calls |-> ninserts + 1]
    /\ UNCHANGED << focus, bt_vars, bp_vars, im_vars, th >>

DBCreateDone(r, config) ==
    /\ db' = r.db
    /\ DBCall("create", "", r.ret, 0, << >>, IF r.ret THEN config ELSE db_last.config)

\* create(config), the file system letting the file be written or not
DBCreate ==
    \E config \in HeapConfigs, fs_ok \in BOOLEAN :
        DBCreateDone(DB_create(db, config, fs_ok), config)

DBOpenDone(r) ==
    /\ db' = r.db
    /\ DBCall("open", "", r.ret, 0, << >>, db_last.config)

DBOpen == DBOpenDone(DB_open(db))

DBClose ==
    /\ db' = DB_close(db)
    /\ DBCall("close", "", TRUE, 0, << >>, db_last.config)

DBRestart ==
    /\ db' = DB_restart(db)
    /\ DBCall("restart", "", TRUE, 0, << >>, db_last.config)

DBCreated(r, table, record) ==
    /\ db' = r.db
    /\ DBCall("create_record", table, r.ret, DB_id(table, record), record, db_last.config)

DBCreateDriver == \E driver \in Drivers : DBCreated(create_driver(db, driver), "drivers", driver)

DBCreateVehicle ==
    \E vehicle \in Vehicles : DBCreated(create_vehicle(db, vehicle), "vehicles", vehicle)

DBCreateTrip == \E trip \in Trips : DBCreated(create_trip(db, trip), "trips", trip)

DBReadDone(r, table, id) ==
    /\ db' = r.db
    /\ DBCall("read_record", table, r.ret, id, r.record, db_last.config)

\* read_*(id, record) into a record the caller has just constructed
DBReadDriver ==
    \E id \in HeapIds : DBReadDone(read_driver(db, id, DriverProfile_new), "drivers", id)

DBReadVehicle ==
    \E id \in HeapIds : DBReadDone(read_vehicle(db, id, VehicleInfo_new), "vehicles", id)

DBReadTrip ==
    \E id \in HeapIds : DBReadDone(read_trip(db, id, TripRecord_new), "trips", id)

DBUpdated(r, table, record) ==
    /\ db' = r.db
    /\ DBCall("update_record", table, r.ret, DB_id(table, record), record, db_last.config)

DBUpdateDriver == \E driver \in Drivers : DBUpdated(update_driver(db, driver), "drivers", driver)

DBUpdateVehicle ==
    \E vehicle \in Vehicles : DBUpdated(update_vehicle(db, vehicle), "vehicles", vehicle)

DBUpdateTrip == \E trip \in Trips : DBUpdated(update_trip(db, trip), "trips", trip)

DBDeleted(r, table, id) ==
    /\ db' = r.db
    /\ DBCall("delete_record", table, r.ret, id, << >>, db_last.config)

DBDeleteDriver == \E id \in HeapIds : DBDeleted(delete_driver(db, id), "drivers", id)

DBDeleteVehicle == \E id \in HeapIds : DBDeleted(delete_vehicle(db, id), "vehicles", id)

\* a new DatabaseManager, with no file or with the file a create(config) of
\* an earlier process wrote
InitHeap ==
    /\ focus = "heap"
    /\ bt = BTree_new
    /\ bt_inserted = {}
    /\ bt_last = NoCall
    /\ bp = BPlusTree_new("vehicle_plate")
    /\ bp_inserted = {}
    /\ bp_last = BP_NoCall
    /\ ninserts = 0
    /\ im = IndexManager_new
    /\ im_last = IM_NoCall
    /\ \/ db = DatabaseManager_new /\ db_last = DB_NoCall
       \/ \E config \in HeapConfigs :
             /\ db = DB_restart(DB_create(DatabaseManager_new, config, TRUE).db)
             /\ db_last = [DB_NoCall EXCEPT !.config = config]
    /\ th = TH_none

NextHeap ==
    \/ DBCreate \/ DBOpen \/ DBClose \/ DBRestart
    \/ DBCreateDriver \/ DBReadDriver \/ DBUpdateDriver \/ DBDeleteDriver
    \/ DBCreateVehicle \/ DBReadVehicle \/ DBUpdateVehicle \/ DBDeleteVehicle
    \/ DBCreateTrip \/ DBReadTrip \/ DBUpdateTrip

SpecHeap == InitHeap /\ [][NextHeap]_vars

\* the seven table offsets a store with the capacities of config has: each
\* table begins where the one before it ends
HeapSizes(config) ==
    << config.max_drivers * 1024, config.max_vehicles * 1024, config.max_trips * 1024,
       100000 * 1024, 500000 * 1024, 100000 * 1024, 50000 * 2048 >>

RECURSIVE HeapOffset(_, _)
HeapOffset(config, k) ==
    IF k = 1 THEN 4096 ELSE HeapOffset(config, k - 1) + HeapSizes(config)[k - 1]

\* the seven table offsets a header tells, and those the store works with
DB_header_offsets(h) ==
    << h.driver_table_offset, h.vehicle_table_offset, h.trip_table_offset,
       h.maintenance_table_offset, h.expense_table_offset, h.document_table_offset,
       h.incident_table_offset >>

DB_table_starts(d) ==
    << d.driver_table_start_, d.vehicle_table_start_, d.trip_table_start_,
       d.maintenance_table_start_, d.expense_table_start_, d.document_table_start_,
       d.incident_table_start_ >>

DB_capacities(h) == << h.max_drivers, h.max_vehicles, h.max_trips >>

\* C15: after create(config) and then open(), the seven table offsets and
\* the three capacities the opened store holds are those create computed
\* from config and wrote into the header.
C15_HeaderRoundTrip ==
    (db_last.op = "open" /\ db_last.prev \in {"create", "restart"} /\ db.file.exists) =>
        /\ db_last.ret
        /\ DB_table_starts(db) = [k \in 1..7 |-> HeapOffset(db_last.config, k)]
        /\ DB_table_starts(db) = DB_header_offsets(db.file.header)
        /\ DB_header_offsets(db.header_) = DB_header_offsets(db.file.header)
        /\ DB_capacities(db.header_) = DB_capacities(db_last.config)
        /\ DB_capacities(db.header_) = DB_capacities(db.file.header)

\* create(config) wrote the file in this process and open() followed it
C15_Witness ==
    /\ db_last.op = "open"
    /\ db_last.prev = "create"
    /\ db_last.ret
    /\ db.is_open_

\* the stream of the store is open and has not failed
DB_stream_good(d) == d.file_.is_open /\ ~d.file_.fail

\* the step is a call of op on the store
DB_step(op) ==
    /\ db_last'.calls # db_last.calls
    /\ db_last'.op = op

\* the step is a read of the id, in the same table, that the call before it
\* was given, that call being op and having returned true
DB_read_after(op) ==
    /\ DB_step("read_record")
    /\ db_last.op = op
    /\ db_last.ret
    /\ db_last'.table = db_last.table
    /\ db_last'.id = db_last.id

\* C16: on an open store, when create_driver, create_vehicle or create_trip
\* returned true, the read of the id of the record that follows returns true
\* and gives the record just created, whatever the table held before.
C16_RecordRoundTrip ==
    [][DB_read_after("create_record") =>
          /\ db_last'.ret
          /\ db_last'.record = db_last.record
      ]_vars

\* C16 for a record whose id no live record of the table had before
C16fresh_RecordRoundTrip ==
    [][(/\ DB_read_after("create_record")
        /\ Cardinality({o \in DOMAIN db.file[db_last.table] :
                          DB_id(db_last.table, db.file[db_last.table][o]) = db_last.id})
             = 1) =>
          /\ db_last'.ret
          /\ db_last'.record = db_last.record
      ]_vars

\* the files differ in the slot at offset of table only, and there only in
\* the liveness sentinel, which marks the slot free now
DB_only_freed(before, after, table, offset) ==
    /\ before[table][offset].is_active # 0
    /\ after = [before EXCEPT ![table][offset] = [@ EXCEPT !.is_active = 0]]

\* C17: when delete_driver or delete_vehicle returned true, the read of the
\* same id that follows reports not-found; the delete changed one slot, and
\* of that slot only the liveness sentinel.
C17_Delete ==
    [][/\ (DB_step("delete_record") /\ db_last'.ret) =>
             \E offset \in DOMAIN db.file[db_last'.table] :
                DB_only_freed(db.file, db'.file, db_last'.table, offset)
       /\ DB_read_after("delete_record") => ~db_last'.ret
      ]_vars

\* C17: what a successful delete does to the slots
C17frame_Delete ==
    [][(DB_step("delete_record") /\ db_last'.ret /\ DB_stream_good(db)) =>
             \E offset \in DOMAIN db.file[db_last'.table] :
                DB_only_freed(db.file, db'.file, db_last'.table, offset)
      ]_vars

\* C16 and C17 on a store whose stream is open and has not failed
C16good_RecordRoundTrip ==
    [][(DB_read_after("create_record") /\ DB_stream_good(db)) =>
          /\ db_last'.ret
          /\ db_last'.record = db_last.record
      ]_vars

C17good_Delete ==
    [][(DB_read_after("delete_record") /\ DB_stream_good(db)) => ~db_last'.ret]_vars

\* the slot of table at offset holds a live record, resp. is free
DB_live(f, table, offset) ==
    IF table = "trips" THEN f[table][offset].trip_id # 0
    ELSE f[table][offset].is_active = 1

DB_free(f, table, offset) ==
    IF table = "trips" THEN f[table][offset].trip_id = 0
    ELSE f[table][offset].is_active = 0

DB_full(f, table) == \A offset \in DOMAIN f[table] : DB_live(f, table, offset)

\* C18: when every slot of a table holds a live record, a further create on
\* that table of the open store returns false and no slot of any table is
\* modified.
C18_SlotExhausted ==
    [][(/\ DB_step("create_record")
        /\ db.is_open_
        /\ DB_full(db.file, db_last'.table)) =>
            /\ ~db_last'.ret
            /\ db'.file = db.file
      ]_vars

C18good_SlotExhausted ==
    [][(/\ DB_step("create_record")
        /\ db.is_open_
        /\ DB_stream_good(db)
        /\ DB_full(db.file, db_last'.table)) =>
            /\ ~db_last'.ret
            /\ db'.file = db.file
      ]_vars

\* the file after differs from the file before in that the lowest free slot
\* of table holds record
DB_first_free_filled(before, after, table, record) ==
    \E offset \in DOMAIN before[table] :
        /\ DB_free(before, table, offset)
        /\ \A lower \in DOMAIN before[table] :
              lower < offset => ~DB_free(before, table, lower)
        /\ after = [before EXCEPT ![table][offset] = record]

\* C19: a create that returns true has written the record into the lowest
\* slot of its table that was free, and has changed no other slot.
C19_FirstFreeSlot ==
    [][(DB_step("create_record") /\ db_last'.ret) =>
          DB_first_free_filled(db.file, db'.file, db_last'.table, db_last'.record)
      ]_vars

C19good_FirstFreeSlot ==
    [][(DB_step("create_record") /\ db_last'.ret /\ DB_stream_good(db)) =>
          DB_first_free_filled(db.file, db'.file, db_last'.table, db_last'.record)
      ]_vars

\* the seven offsets of header h follow the 4096 bytes of the header one
\* after the other, each table ending where the next begins
DB_contiguous(h) == DB_header_offsets(h) = [k \in 1..7 |-> HeapOffset(h, k)]

\* the slots of the three tables of file f lie where its header says
DB_slots_in_place(f) ==
    /\ DOMAIN f.drivers =
          {f.header.driver_table_offset + i * 1024 : i \in 0..(f.header.max_drivers - 1)}
    /\ DOMAIN f.vehicles =
          {f.header.vehicle_table_offset + i * 1024 : i \in 0..(f.header.max_vehicles - 1)}
    /\ DOMAIN f.trips =
          {f.header.trip_table_offset + i * 1024 : i \in 0..(f.header.max_trips - 1)}

DB_layout ==
    /\ db.file.exists => DB_contiguous(db.file.header) /\ DB_slots_in_place(db.file)
    /\ db.is_open_ =>
          /\ DB_contiguous(db.header_)
          /\ DB_table_starts(db) = DB_header_offsets(db.header_)
          /\ DB_header_offsets(db.header_) = DB_header_offsets(db.file.header)
          /\ DB_capacities(db.header_) = DB_capacities(db.file.header)

RecordCalls == {"create_record", "read_record", "update_record", "delete_record"}

\* C20: the seven table regions follow the 4096-byte header contiguously in
\* the order driver, vehicle, trip, maintenance, expense, document, incident,
\* each starting where the one before it ends, and once the store is open no
\* create, read, update or delete of a record changes a table offset or a
\* capacity.
C20_Layout ==
    /\ []DB_layout
    /\ [][(db_last'.calls # db_last.calls /\ db_last'.op \in RecordCalls /\ db.is_open_) =>
             /\ DB_table_starts(db') = DB_table_starts(db)
             /\ db'.header_ = db.header_
             /\ db'.file.header = db.file.header
         ]_vars

\* an open store after a record was written into a slot
C20_Witness ==
    /\ db_last.op = "create_record"
    /\ db_last.ret
    /\ db.is_open_
    /\ DB_stream_good(db)
    /\ db_last.table = "vehicles"
    /\ \E offset \in DOMAIN db.file.vehicles : db.file.vehicles[offset] = db_last.record

(***************************************************************************)
(* A new DatabaseManager on a path that holds no store: no file, a file of *)
(* no bytes, or the file of another program.                               *)
(***************************************************************************)
InitForeign ==
    /\ focus = "heap"
    /\ bt = BTree_new
    /\ bt_inserted = {}
    /\ bt_last = NoCall
    /\ bp = BPlusTree_new("vehicle_plate")
    /\ bp_inserted = {}
    /\ bp_last = BP_NoCall
    /\ ninserts = 0
    /\ im = IndexManager_new
    /\ im_last = IM_NoCall
    /\ \E f \in {DB_no_file, DB_empty_file, DB_foreign_file} :
          db = [DatabaseManager_new EXCEPT !.file = f]
    /\ db_last = DB_NoCall
    /\ th = TH_none

SpecForeign == InitForeign /\ [][NextHeap]_vars

\* the file is missing or does not begin with the tag "SDMDB001"
DB_no_store(f) ==
    \/ ~f.exists
    \/ ~DB_has_header(f)
    \/ f.header.magic # "SDMDB001"

\* C21: open() returns false when the file is missing or its magic tag is
\* not "SDMDB001"; the store then reports not-open, and every create, read,
\* update and delete of a record on it returns false and leaves the file as
\* it is.
C21_OpenFailure ==
    [][/\ (DB_step("open") /\ DB_no_store(db.file)) =>
             /\ ~db_last'.ret
             /\ ~db'.is_open_
       /\ (/\ db_last'.calls # db_last.calls
           /\ db_last'.op \in RecordCalls
           /\ \/ ~db.is_open_
              \/ db_last.op = "open" /\ ~db_last.ret) =>
             /\ ~db_last'.ret
             /\ db'.file = db.file
      ]_vars

\* C21 for a file that is missing or holds the header of another program
C21header_OpenFailure ==
    [][/\ (DB_step("open") /\ DB_no_store(db.file)
                           /\ (db.file.exists => DB_has_header(db.file))) =>
             /\ ~db_last'.ret
             /\ ~db'.is_open_
       /\ (/\ db_last'.calls # db_last.calls
           /\ db_last'.op \in RecordCalls
           /\ \/ ~db.is_open_
              \/ db_last.op = "open" /\ ~db_last.ret) =>
             /\ ~db_last'.ret
             /\ db'.file = db.file
      ]_vars

(***************************************************************************)
(* The node cache of a BTree under load: the ascending load of CacheKeys   *)
(* keys, which makes more pages than the cache holds, and then read_node   *)
(* and write_node on pages in and out of the cache.                        *)
(***************************************************************************)
\* keys of the load, and calls of read_node and write_node after it
CacheKeys == 1300

CacheCalls == 4

\* the page offsets of the entries of a cache, in the order of the vector
BT_cache_offsets(t) == [i \in 1..Len(t.cache_) |-> t.cache_[i].offset]

\* the node pages of the file that have no entry in the cache
BT_uncached(t) ==
    {PAGE_SIZE * q : q \in 1..Len(t.nodes)} \ {t.cache_[i].offset : i \in 1..Len(t.cache_)}

\* the pages the calls are made on: the first, second and last entry of the
\* cache and the lowest page that is not cached
CachePages(t) ==
    {t.cache_[i].offset : i \in {1, 2, Len(t.cache_)} \cap (1..Len(t.cache_))}
        \cup (IF BT_uncached(t) = {} THEN {} ELSE {SetMin(BT_uncached(t))})

\* IndexManager::insert_primary of the next key of the load
CacheLoad ==
    /\ focus = "cache"
    /\ ~bt.crashed
    /\ ninserts < CacheKeys
    /\ BTInsertRecord(ScenarioKey(ninserts + 1), ScenarioOffset(ninserts + 1))
    /\ ninserts' = ninserts + 1
    /\ UNCHANGED << focus, bp_vars, im_vars, db_vars, th >>

\* the calls of read_node and write_node so far, the last one last: the
\* offset given, and the index of its entry in the cache before the call
\* (0: none)
CacheCalled == IF bt_last.op \in {"read_node", "write_node"} THEN bt_last.results ELSE << >>

\* the history of a read_node or write_node of the page at offset
CacheCall(op, offset, ret) ==
    /\ focus = "cache"
    /\ ~bt.crashed
    /\ ninserts >= CacheKeys
    /\ ninserts < CacheKeys + CacheCalls
    /\ ninserts' = ninserts + 1
    /\ bt_last' = [NoCall EXCEPT
                      !.op = op, !.ret = ret,
                      !.results = Append(CacheCalled,
                                         [offset |-> offset,
                                          at |-> BT_cache_find(bt, offset)])]
    /\ UNCHANGED << focus, bt_inserted, bp_vars, im_vars, db_vars, th >>

CacheReadDone(r, offset) ==
    /\ bt' = r.t
    /\ CacheCall("read_node", offset, r.ok)

\* read_node(offset, node)
CacheReadNode ==
    \E offset \in CachePages(bt) :
        CacheReadDone(BT_read_node(bt, offset, BTreeNode_new), offset)

\* write_node(offset, node) of the node the page holds
CacheWriteNode ==
    \E offset \in CachePages(bt) :
        /\ bt' = BT_write_node(bt, offset, NodeAt(bt, offset))
        /\ CacheCall("write_node", offset, bt'.good)

InitCache ==
    /\ focus = "cache"
    /\ bt = BT_opened
    /\ bt_inserted = {}
    /\ bt_last = NoCall
    /\ bp = BP_opened
    /\ bp_inserted = {}
    /\ bp_last = BP_NoCall
    /\ ninserts = 0
    /\ im = IndexManager_new
    /\ im_last = IM_NoCall
    /\ db = DatabaseManager_new
    /\ db_last = DB_NoCall
    /\ th = TH_none

NextCache == CacheLoad \/ CacheReadNode \/ CacheWriteNode

SpecCache == InitCache /\ [][NextCache]_vars

\* C22: in every reachable state the node cache of the B-Tree holds at most
\* 256 entries and at most one entry for a page offset.
C22_CacheBounded ==
    /\ Len(bt.cache_) <= CACHE_SIZE
    /\ Cardinality({bt.cache_[i].offset : i \in 1..Len(bt.cache_)}) = Len(bt.cache_)

\* a read_node has added the page it read to a full cache
C22_Witness ==
    /\ bt_last.op = "read_node"
    /\ bt_last.ret
    /\ Len(bt.cache_) = CACHE_SIZE
    /\ bt_last.results[Len(bt_last.results)].at = 0
    /\ bt.cache_[CACHE_SIZE].offset = bt_last.results[Len(bt_last.results)].offset

\* the step is a read_node or write_node on a full cache
BT_cache_step ==
    /\ ninserts' # ninserts
    /\ bt_last'.op \in {"read_node", "write_node"}
    /\ Len(bt.cache_) = CACHE_SIZE

\* the entries of the cache that the step has left in it are the last ones
\* in the order of the vector, and they come first after the step; an entry
\* is erased in a step only if the cache is full after it
BT_cache_suffix_kept ==
    \E k \in 0..Len(bt.cache_) :
        /\ Len(bt'.cache_) >= Len(bt.cache_) - k
        /\ SubSeq(BT_cache_offsets(bt'), 1, Len(bt.cache_) - k)
              = SubSeq(BT_cache_offsets(bt), k + 1, Len(bt.cache_))
        /\ k > 0 => Len(bt'.cache_) = CACHE_SIZE

\* C23: the cache evicts in insertion order.  A read_node that hits and a
\* write_node of a cached page leave the order of the entries as it is; a
\* node added to a full cache takes the place behind the last entry and the
\* entry erased is the first one, the earliest added of those present,
\* however often it was hit or rewritten.  An insert leaves in the cache the
\* entries added last.
C23_Fifo ==
    [][/\ BT_cache_step =>
            IF BT_cache_find(bt, bt_last'.results[Len(bt_last'.results)].offset) # 0
            THEN BT_cache_offsets(bt') = BT_cache_offsets(bt)
            ELSE BT_cache_offsets(bt')
                    = Append(Tail(BT_cache_offsets(bt)),
                             bt_last'.results[Len(bt_last'.results)].offset)
       /\ (ninserts' # ninserts /\ bt_last'.op = "insert") => BT_cache_suffix_kept
      ]_vars

\* the first entry of a full cache was hit by two calls, and the add of
\* another page by the read_node that followed has erased it
C23_Witness ==
    /\ bt_last.op = "read_node"
    /\ bt_last.ret
    /\ Len(bt_last.results) = 3
    /\ bt_last.results[1].at = 1
    /\ bt_last.results[2].at = 1
    /\ bt_last.results[3].at = 0
    /\ Len(bt.cache_) = CACHE_SIZE
    /\ bt.cache_[CACHE_SIZE].offset = bt_last.results[3].offset
    /\ bt_last.results[1].offset \in BT_uncached(bt)

(***************************************************************************)
(* Two worker threads of SDMServer (SDMServer.h 364-399) inside            *)
(* read_driver and update_driver of the one DatabaseManager.  The store    *)
(* has no lock: a step is one call on its stream, seekg, read, seekp or    *)
(* write with flush, together with the statements of the handler up to the *)
(* next call, and the steps of the two threads interleave freely.  A store *)
(* of two driver slots holds the drivers 1 and 2.                          *)
(***************************************************************************)
\* requests a worker thread takes from the queue
ThreadRequests == 1

ThreadIds == {1, 2}

\* the ids the requests name
ThreadDriverIds == {1, 2}

ThreadDriver(id, total_trips) ==
    [DriverProfile_new EXCEPT !.driver_id = id, !.total_trips = total_trips]

\* no call on the stream yet
TH_no_io == [kind |-> "none", sought |-> 0, at |-> 0, by |-> 0, op |-> "none"]

\* a worker thread between two requests, left requests to come
TH_idle(left) ==
    [pc |-> "idle", op |-> "none", id |-> 0, i |-> 0, driver |-> DriverProfile_new,
     arg |-> DriverProfile_new, ret |-> FALSE, io |-> TH_no_io, left |-> left]

\* the bytes of a slot read into a DriverProfile: those of a driver slot, or
\* those of a slot of the vehicle table as create() wrote it
DB_as_driver(record) ==
    IF "driver_id" \in DOMAIN record THEN record
    ELSE [DriverProfile_new EXCEPT !.is_active = 0]

\* the sizeof(DriverProfile) bytes of the file from position pos on
DB_driver_at(f, pos) ==
    IF pos \in DOMAIN f.drivers THEN f.drivers[pos] ELSE DB_as_driver(f.vehicles[pos])

\* a thread that kept a file position of its own: the offset it sought
TH_position_own(d, s, k) == DB_slot_offset(d, "drivers", s.t[k].i)

\* the position at which a read or write of thread k on file_ takes place:
\* the one position of the stream
TH_position(d, s, k) == s.pos

\* the history of a read or write of thread k
TH_io(d, s, k, kind) ==
    [kind |-> kind, sought |-> DB_slot_offset(d, "drivers", s.t[k].i),
     at |-> TH_position(d, s, k), by |-> s.pos_by, op |-> s.pos_op]

\* lines 258-261 and 278-281: the thread enters read_driver(id, driver) or
\* update_driver(driver)
TH_begin(s, k, op, id) ==
    [s EXCEPT !.t[k] = [@ EXCEPT !.pc = "seek", !.op = op, !.id = id, !.i = 0,
                                 !.driver = DriverProfile_new,
                                 !.arg = ThreadDriver(id, 1),
                                 !.ret = FALSE, !.io = TH_no_io, !.left = @ - 1]]

\* lines 263-266 and 283-288: the test of the loop and file_.seekg
TH_seekg(d, s, k) ==
    IF s.t[k].i < d.header_.max_drivers
    THEN [s EXCEPT !.pos = DB_slot_offset(d, "drivers", s.t[k].i), !.pos_by = k,
                   !.pos_op = "seekg", !.t[k].pc = "read"]
    ELSE [s EXCEPT !.t[k].pc = "idle", !.t[k].ret = FALSE]

\* lines 269-275 and 291-300, the slot read into driver: the test of the
\* record, the return of read_driver, the next turn of the loop
TH_tested(s, k) ==
    IF s.t[k].driver.is_active = 1 /\ s.t[k].driver.driver_id = s.t[k].id
    THEN IF s.t[k].op = "read_driver"
         THEN [s EXCEPT !.t[k].pc = "idle", !.t[k].ret = TRUE]
         ELSE [s EXCEPT !.t[k].pc = "seekp"]
    ELSE [s EXCEPT !.t[k].pc = "seek", !.t[k].i = @ + 1]

\* lines 267 and 289: file_.read, which moves the position on
TH_read(d, s, k) ==
    TH_tested([s EXCEPT !.pos = TH_position(d, s, k) + sizeof_DriverProfile,
                        !.pos_by = k, !.pos_op = "read",
                        !.t[k].driver = DB_driver_at(d.file, TH_position(d, s, k)),
                        !.t[k].io = TH_io(d, s, k, "read")],
              k)

\* line 293: file_.seekp
TH_seekp(d, s, k) ==
    [s EXCEPT !.pos = DB_slot_offset(d, "drivers", s.t[k].i), !.pos_by = k,
              !.pos_op = "seekp", !.t[k].pc = "write"]

\* the file after sizeof(DriverProfile) bytes were written at position pos
DB_driver_written(f, pos, driver) ==
    IF pos \in DOMAIN f.drivers THEN [f EXCEPT !.drivers[pos] = driver]
    ELSE [f EXCEPT !.vehicles[pos] = driver]

\* lines 294-296: file_.write, file_.flush and return true
TH_write(d, s, k) ==
    [db |-> [d EXCEPT !.file = DB_driver_written(@, TH_position(d, s, k), s.t[k].arg)],
     th |-> [s EXCEPT !.pos = TH_position(d, s, k) + sizeof_DriverProfile,
                      !.pos_by = k, !.pos_op = "write",
                      !.t[k].pc = "idle", !.t[k].ret = TRUE,
                      !.t[k].io = TH_io(d, s, k, "write")]]

THStep(k, pc) ==
    /\ focus = "threads"
    /\ th.t[k].pc = pc
    /\ UNCHANGED << focus, bt_vars, bp_vars, im_vars, ninserts, db_last >>

\* worker_thread: a request dequeued, process_request on it
THBegin ==
    \E k \in ThreadIds, op \in {"read_driver", "update_driver"}, id \in ThreadDriverIds :
        /\ THStep(k, "idle")
        /\ th.t[k].left > 0
        /\ db.is_open_
        /\ th' = TH_begin(th, k, op, id)
        /\ UNCHANGED db

THSeekg ==
    \E k \in ThreadIds :
        /\ THStep(k, "seek")
        /\ th' = TH_seekg(db, th, k)
        /\ UNCHANGED db

THRead ==
    \E k \in ThreadIds :
        /\ THStep(k, "read")
        /\ th' = TH_read(db, th, k)
        /\ UNCHANGED db

THSeekp ==
    \E k \in ThreadIds :
        /\ THStep(k, "seekp")
        /\ th' = TH_seekp(db, th, k)
        /\ UNCHANGED db

THWrite ==
    \E k \in ThreadIds :
        /\ THStep(k, "write")
        /\ th' = TH_write(db, th, k).th
        /\ db' = TH_write(db, th, k).db

\* the store of two driver slots after create(config), open() and the
\* create_driver of the drivers 1 and 2
DB_two_drivers ==
    create_driver(
        create_driver(DB_open(DB_create(DatabaseManager_new, SDMConfig(2, 2, 1), TRUE).db).db,
                      ThreadDriver(1, 0)).db,
        ThreadDriver(2, 0)).db

InitThreads ==
    /\ focus = "threads"
    /\ bt = BTree_new
    /\ bt_inserted = {}
    /\ bt_last = NoCall
    /\ bp = BPlusTree_new("vehicle_plate")
    /\ bp_inserted = {}
    /\ bp_last = BP_NoCall
    /\ ninserts = 0
    /\ im = IndexManager_new
    /\ im_last = IM_NoCall
    /\ db = DB_two_drivers
    /\ db_last = [DB_NoCall EXCEPT !.config = SDMConfig(2, 2, 1)]
    /\ th = [TH_none EXCEPT !.t = [k \in ThreadIds |-> TH_idle(ThreadRequests)]]

NextThreads == THBegin \/ THSeekg \/ THRead \/ THSeekp \/ THWrite

SpecThreads == InitThreads /\ [][NextThreads]_vars

\* thread k has made a read or write on the stream in this step
TH_io_step(k) ==
    /\ th.t[k].pc \in {"read", "write"}
    /\ th'.t[k].pc # th.t[k].pc

\* C24: nothing orders the seek-then-read and seek-then-write pairs of two
\* threads on the one stream: a read or write of a thread takes place at the
\* position the stream has, and where that is not the offset the thread
\* sought it is the other thread that moved the position; the read then
\* delivers, and the write replaces, the bytes found there.
C24_SharedPosition ==
    /\ [](\A k \in ThreadIds :
            (th.t[k].io.kind # "none" /\ th.t[k].io.at # th.t[k].io.sought) =>
                th.t[k].io.by \in ThreadIds \ {k})
    /\ [][\A k \in ThreadIds :
            /\ (TH_io_step(k) /\ th.t[k].pc = "read") =>
                  th'.t[k].driver = DB_driver_at(db.file, th.pos)
            /\ (TH_io_step(k) /\ th.t[k].pc = "write") =>
                  /\ DB_driver_at(db'.file, th.pos) = th.t[k].arg
                  /\ \A o \in (DOMAIN db.file.drivers) \ {th.pos} :
                        db'.file.drivers[o] = db.file.drivers[o]
         ]_vars

\* a thread sought the slot of one driver, the other thread then sought the
\* slot of the other driver, and the read of the first thread has delivered
\* the record of that other slot
C24_Witness ==
    \E k \in ThreadIds :
        /\ th.t[k].io.kind = "read"
        /\ th.t[k].io.at # th.t[k].io.sought
        /\ th.t[k].io.at \in DOMAIN db.file.drivers
        /\ th.t[k].io.by # k
        /\ th.t[k].io.op = "seekg"
        /\ th.t[k].driver = db.file.drivers[th.t[k].io.at]
        /\ th.t[k].driver.driver_id # db.file.drivers[th.t[k].io.sought].driver_id

\* update_driver of a thread has written its record over the slot of the
\* other driver, at the offset the other thread sought
C24write_Witness ==
    \E k \in ThreadIds :
        /\ th.t[k].io.kind = "write"
        /\ th.t[k].io.at # th.t[k].io.sought
        /\ th.t[k].io.at \in DOMAIN db.file.drivers
        /\ th.t[k].io.op = "seekg"
        /\ db.file.drivers[th.t[k].io.at] = th.t[k].arg
        /\ \A o \in DOMAIN db.file.drivers : db.file.drivers[o].driver_id = th.t[k].id

(***************************************************************************)
(* The managers on a persisted store, over the end of the process and a    *)
(* new one: SDMServer::initialize (SDMServer.h 91-134),                    *)
(* TripManager::start_trip (TripManager.h 72-107) and                      *)
(* VehicleManager::add_vehicle (VehicleManager.h 175-220).                 *)
(***************************************************************************)
\* calls on the managers and restarts in a behaviour
ProcessCalls == 5

\* the configuration of the store the first process creates
ProcessConfig == SDMConfig(2, 2, 2)

\* the license plates add_vehicle is given
ProcessPlates == {PlateAt(PlateBase), PlateAt(PlateBase + 1)}

\* the counter a process starts with that kept the one of the process before
TM_counter_kept(counter) == counter

\* static uint64_t counter = 1: the counter a process starts with
TM_counter_start(counter) == 1

\* SDMServer.h 97-110: open(), and create(config) and open() when it failed
SDM_open_created(c) == IF c.ret THEN DB_open(c.db) ELSE c

SDM_open_or_create(r, config) ==
    IF r.ret THEN r ELSE SDM_open_created(DB_create(r.db, config, TRUE))

SDM_initialize_db(d, config) == SDM_open_or_create(DB_open(d), config)

\* SDMServer.h 123-132: open_indexes(), and create_indexes() when it failed
SDM_indexes_or_create(r) ==
    IF r.ret THEN r ELSE IM_create_indexes(r.im, [name \in IndexNames |-> TRUE])

SDM_initialize_indexes(m) == SDM_indexes_or_create(IM_open_indexes(m))

\* cleanup() and the end of the process: the managers, caches and index
\* objects are destroyed, the statics are gone
SDM_new_process(s) ==
    [s EXCEPT !.trip_counter = TM_counter_start(@),
              !.vehicle_counter = TM_counter_start(@),
              !.active_trips_ = << >>,
              !.vehicle_cache_ = {}]

\* a new IndexManager on the index files the one destroyed has left
IM_restart(m) == [IM_close_all(m) EXCEPT !.held = {}]

\* start_trip, lines 96-106: the trip is in the primary index and active
TM_trip_started(d, m, s, trip, now) ==
    [ret |-> trip.trip_id,
     db |-> d,
     im |-> IM_insert_primary_checked(m, 3, trip.trip_id, now, 0).im,
     th |-> [s EXCEPT !.active_trips_ = Append(@, trip.trip_id)]]

\* start_trip, lines 89-106, r being what create_trip gave
TM_trip_created(r, m, s, trip, now) ==
    IF ~r.ret THEN [ret |-> 0, db |-> r.db, im |-> m, th |-> s]
    ELSE TM_trip_started(r.db, m, s, trip, now)

\* start_trip, lines 80-106, trip carrying the id generate_trip_id gave
TM_start_trip_as(d, m, s, trip, now) ==
    TM_trip_created(create_trip(d, trip), m, [s EXCEPT !.trip_counter = @ + 1], trip, now)

\* start_trip(driver_id, ...) at the time now
TM_start_trip(d, m, s, driver_id, now) ==
    TM_start_trip_as(d, m, s,
                     [TripRecord_new EXCEPT !.trip_id = s.trip_counter,
                                            !.driver_id = driver_id],
                     now)

\* cache_.put_vehicle(vehicle_id, vehicle)
CM_put_vehicle(cache, vehicle) ==
    {e \in cache : e.vehicle_id # vehicle.vehicle_id} \cup {vehicle}

\* add_vehicle, lines 213-219: the plate and the vehicle are in the indexes
\* and the vehicle is cached
VM_vehicle_added(d, m, s, vehicle, plate, now) ==
    [ret |-> vehicle.vehicle_id,
     db |-> d,
     im |-> IM_insert_primary_checked(
                IM_insert_plate(m, plate, vehicle.vehicle_id).im,
                2, vehicle.vehicle_id, now, 0).im,
     th |-> [s EXCEPT !.vehicle_cache_ = CM_put_vehicle(@, vehicle)]]

\* add_vehicle, lines 207-219, r being what create_vehicle gave
VM_vehicle_created(r, m, s, vehicle, plate, now) ==
    IF ~r.ret THEN [ret |-> 0, db |-> r.db, im |-> m, th |-> s]
    ELSE VM_vehicle_added(r.db, m, s, vehicle, plate, now)

\* add_vehicle, lines 183-219, found being what search_by_plate gave
VM_add_vehicle_searched(d, found, s, plate, owner_driver_id, now) ==
    IF found.found THEN [ret |-> 0, db |-> d, im |-> found.im, th |-> s]
    ELSE VM_vehicle_created(
            create_vehicle(d, [VehicleInfo_new EXCEPT
                                  !.vehicle_id = s.vehicle_counter,
                                  !.owner_driver_id = owner_driver_id]),
            found.im,
            [s EXCEPT !.vehicle_counter = @ + 1],
            [VehicleInfo_new EXCEPT !.vehicle_id = s.vehicle_counter,
                                    !.owner_driver_id = owner_driver_id],
            plate, now)

\* add_vehicle(license_plate, ..., owner_driver_id) at the time now
VM_add_vehicle(d, m, s, plate, owner_driver_id, now) ==
    VM_add_vehicle_searched(
        d, IM_search_secondary(m, "vehicle_plate_index_", plate, 0), s, plate,
        owner_driver_id, now)

\* the history of a call on the managers: id is what it returned
ProcessCall(op, id) ==
    /\ focus = "process"
    /\ ninserts < ProcessCalls
    /\ ninserts' = ninserts + 1
    /\ db_last' = [DB_NoCall EXCEPT !.op = op, !.prev = db_last.op, !.id = id,
                                    !.ret = id # 0, !.config = ProcessConfig,
                                    !.calls = ninserts + 1]
    /\ UNCHANGED << focus, bt_vars, bp_vars, im_last >>

ProcessDone(r, op) ==
    /\ db' = r.db
    /\ im' = r.im
    /\ th' = r.th
    /\ ProcessCall(op, r.ret)

\* the clock of the machine goes on over the processes
PMStartTrip == ProcessDone(TM_start_trip(db, im, th, 1, ninserts + 1), "start_trip")

PMAddVehicle ==
    \E plate \in ProcessPlates :
        ProcessDone(VM_add_vehicle(db, im, th, plate, 1, ninserts + 1), "add_vehicle")

\* the server is stopped and started again
PMRestart ==
    /\ db' = SDM_initialize_db(DB_restart(db), ProcessConfig).db
    /\ im' = SDM_initialize_indexes(IM_restart(im)).im
    /\ th' = SDM_new_process(th)
    /\ ProcessCall("restart", 0)

\* the first process on a machine without store and index files, after
\* SDMServer::initialize
InitProcess ==
    /\ focus = "process"
    /\ bt = BTree_new
    /\ bt_inserted = {}
    /\ bt_last = NoCall
    /\ bp = BPlusTree_new("vehicle_plate")
    /\ bp_inserted = {}
    /\ bp_last = BP_NoCall
    /\ ninserts = 0
    /\ im = SDM_initialize_indexes(IndexManager_new).im
    /\ im_last = IM_NoCall
    /\ db = SDM_initialize_db(DatabaseManager_new, ProcessConfig).db
    /\ db_last = [DB_NoCall EXCEPT !.config = ProcessConfig]
    /\ th = TH_none

NextProcess == PMStartTrip \/ PMAddVehicle \/ PMRestart

SpecProcess == InitProcess /\ [][NextProcess]_vars

\* the slots of table in file f that hold a live record of the id
DB_live_with(f, table, id) ==
    {o \in DOMAIN f[table] : DB_live(f, table, o) /\ DB_id(table, f[table][o]) = id}

DB_has_free(f, table) == \E o \in DOMAIN f[table] : DB_free(f, table, o)

\* the step is a call of op on the managers
PM_step(op) ==
    /\ db_last'.calls # db_last.calls
    /\ db_last'.op = op

\* C25: the id counters live as long as the process and start at 1 in every
\* process.  After a restart on a persisted store that holds a live trip 1
\* and has a free trip slot, the first start_trip returns the id 1 again and
\* two live records of trip 1 are in the table; likewise add_vehicle of a
\* plate that is not in the index, for the vehicle 1.
C25_CounterRestart ==
    [][/\ PM_step("restart") => th'.trip_counter = 1 /\ th'.vehicle_counter = 1
       /\ (/\ PM_step("start_trip")
           /\ th.trip_counter = 1
           /\ DB_live_with(db.file, "trips", 1) # {}
           /\ DB_has_free(db.file, "trips")) =>
              /\ db_last'.id = 1
              /\ Cardinality(DB_live_with(db'.file, "trips", 1))
                    = Cardinality(DB_live_with(db.file, "trips", 1)) + 1
       /\ (/\ PM_step("add_vehicle")
           /\ db_last'.ret
           /\ th.vehicle_counter = 1
           /\ DB_live_with(db.file, "vehicles", 1) # {}) =>
              /\ db_last'.id = 1
              /\ Cardinality(DB_live_with(db'.file, "vehicles", 1))
                    = Cardinality(DB_live_with(db.file, "vehicles", 1)) + 1
      ]_vars

\* the second process has started a trip and added a vehicle: two live
\* trips and two live vehicles carry the id 1
C25_Witness ==
    /\ db_last.op \in {"start_trip", "add_vehicle"}
    /\ db_last.id = 1
    /\ Cardinality(DB_live_with(db.file, "trips", 1)) = 2
    /\ Cardinality(DB_live_with(db.file, "vehicles", 1)) = 2

\* every call of insert_non_full of the insert was made on a node that is
\* not full, and every split_child on a full child of a parent that is not
\* full
InsertCallsPreemptive(calls, MAX_KEYS) ==
    \A i \in 1..Len(calls) :
        IF calls[i].fn = "insert_non_full" THEN calls[i].key_count < MAX_KEYS
        ELSE /\ calls[i].ok
             /\ calls[i].key_count = MAX_KEYS
             /\ calls[i].parent < MAX_KEYS

\* no node the tree object holds has more keys than its arrays have places
BT_keys_in_place(t) ==
    \A o \in BT_offsets(t) : BT_node(t, o).key_count <= BTreeNode_MAX_KEYS

BP_keys_in_place(t) ==
    \A o \in BP_offsets(t) : BP_node(t, o).key_count <= BPlusNode_MAX_KEYS

InsertSplitOnDescent(calls, MAX_KEYS) ==
    /\ \E i \in 1..Len(calls) :
           /\ calls[i].fn = "split_child"
           /\ calls[i].ok
           /\ calls[i].key_count = MAX_KEYS
           /\ calls[i].parent > 0
    /\ calls[Len(calls)].fn = "insert_non_full"
    /\ calls[Len(calls)].key_count < MAX_KEYS

RECURSIVE BT_under(_, _)
BT_under(t, S) ==
    IF UNION {ChildrenOf(BT_node(t, o)) :
                o \in {x \in S \cap BT_offsets(t) : ~BTreeNode_is_leaf(BT_node(t, x))}}
          \subseteq S
    THEN S
    ELSE BT_under(t, S \cup UNION {ChildrenOf(BT_node(t, o)) :
                o \in {x \in S \cap BT_offsets(t) : ~BTreeNode_is_leaf(BT_node(t, x))}})

RECURSIVE BP_under(_, _)
BP_under(t, S) ==
    IF UNION {ChildrenOf(BP_node(t, o)) :
                o \in {x \in S \cap BP_offsets(t) : ~BPlusNode_is_leaf(BP_node(t, x))}}
          \subseteq S
    THEN S
    ELSE BP_under(t, S \cup UNION {ChildrenOf(BP_node(t, o)) :
                o \in {x \in S \cap BP_offsets(t) : ~BPlusNode_is_leaf(BP_node(t, x))}})

\* the keys a node holds
KeysOf(node) == {node.keys[i] : i \in 0..(node.key_count - 1)}

\* the keys of the subtree under the node at an offset
BT_subtree_keys(t, offset) ==
    UNION {KeysOf(BT_node(t, o)) : o \in BT_under(t, {offset}) \cap BT_offsets(t)}

BP_subtree_keys(t, offset) ==
    UNION {KeysOf(BP_node(t, o)) : o \in BP_under(t, {offset}) \cap BP_offsets(t)}

\* the keys of the node are in non-decreasing order and the keys under its
\* child i lie between keys[i-1] and keys[i]
BT_node_ordered(t, node) ==
    /\ \A i \in 0..(node.key_count - 2) : CK_le(node.keys[i], node.keys[i + 1])
    /\ ~BTreeNode_is_leaf(node) =>
          \A i \in 0..node.key_count :
             \A k \in BT_subtree_keys(t, node.child_offsets[i]) :
                /\ i > 0 => CK_le(node.keys[i - 1], k)
                /\ i < node.key_count => CK_le(k, node.keys[i])

BP_node_ordered(t, node) ==
    /\ \A i \in 0..(node.key_count - 2) : BK_le(node.keys[i], node.keys[i + 1])
    /\ ~BPlusNode_is_leaf(node) =>
          \A i \in 0..node.key_count :
             \A k \in BP_subtree_keys(t, node.child_offsets[i]) :
                /\ i > 0 => BK_le(node.keys[i - 1], k)
                /\ i < node.key_count => BK_le(k, node.keys[i])

BT_ordered(t) == \A o \in BT_offsets(t) : BT_node_ordered(t, BT_node(t, o))

BP_ordered(t) == \A o \in BP_offsets(t) : BP_node_ordered(t, BP_node(t, o))

\* C27: after any sequence of inserts into either tree, the keys of every
\* node are in non-decreasing order, and all keys of the subtree under
\* child i of an internal node are at least keys[i-1] (for i > 0) and at
\* most keys[i] (for i < key_count).  A B-Tree whose last insert never
\* returned is left out.
C27_Ordering ==
    /\ (focus = "primary" /\ ~bt.crashed) => BT_ordered(bt)
    /\ focus = "vehicle_plate" => BP_ordered(bp)

(***************************************************************************)
(* The forward chain of the leaves of the B+-Tree (BPlusTree.h 202-211,    *)
(* 337-354, 443-462)                                                       *)
(***************************************************************************)
\* the leaf offsets the while loop of scan_all visits from current on, seen
\* being those visited so far, and the offset at which the walk ends: 0, or
\* an offset visited before (the loop of the code never ends then), or an
\* offset that is no page of the file
RECURSIVE BP_chain_from(_, _, _)
BP_chain_from(t, current, seen) ==
    IF current = 0 \/ current \in Range(seen) \/ current \notin BP_offsets(t)
    THEN [chain |-> seen, end |-> current]
    ELSE BP_chain_from(t, BP_node(t, current).next_leaf, Append(seen, current))

BP_chain(t) == BP_chain_from(t, t.metadata_.leftmost_leaf, << >>)

\* the leaves of the tree
BP_leaves(t) ==
    {o \in BP_under(t, {t.metadata_.root_offset}) \cap BP_offsets(t) :
        BPlusNode_is_leaf(BP_node(t, o))}

\* the chain c visits every leaf once, in ascending order of the keys, and
\* ends at offset 0
BP_chain_complete(t, c) ==
    /\ c.end = 0
    /\ Range(c.chain) = BP_leaves(t)
    /\ \A i \in 1..Len(c.chain) : \A j \in 1..Len(c.chain) :
          i < j => \A a \in KeysOf(BP_node(t, c.chain[i])) :
                      \A b \in KeysOf(BP_node(t, c.chain[j])) : BK_le(a, b)
    /\ \A i \in 1..Len(c.chain) :
          \A n \in 0..(BP_node(t, c.chain[i]).key_count - 2) :
             BK_le(BP_node(t, c.chain[i]).keys[n], BP_node(t, c.chain[i]).keys[n + 1])

\* C28: after any sequence of inserts into a B+-Tree, the left-most-leaf
\* offset of the metadata designates the leaf of the smallest keys, and the
\* walk along next_leaf from it visits every leaf of the tree exactly once,
\* in ascending key order, and ends at offset 0, so that scan_all ends.
C28_ForwardChain ==
    (focus = "vehicle_plate" /\ bp.is_open) => BP_chain_complete(bp, BP_chain(bp))

\* C29: an open() that follows the close() of an open tree returns true, and
\* after it the root offset, the entry count and the height of the metadata
\* and the results of search, range_query and scan_all are those of before
\* the close(); for the B-Tree and for the B+-Tree.
C29_ReopenRoundTrip ==
    [][/\ (focus = "primary" /\ bt_last.op = "close" /\ bt_last.ret
              /\ bt_last'.op = "open") =>
             /\ bt_last'.ret
             /\ BT_observed(bt', bt_inserted') = bt_last.results[1]
       /\ (focus = "vehicle_plate" /\ bp_last.op = "close" /\ bp_last.ret
              /\ bp_last'.op = "open") =>
             /\ bp_last'.ret
             /\ BP_observed(bp', bp_inserted') = bp_last.results[1]]_vars

\* C30: open() on a tree that is open returns true and leaves the root
\* offset, the entry count and the height in memory as they were, and every
\* search gives what it gave before the call; for the B-Tree and for the
\* B+-Tree.
C30_OpenIdempotent ==
    [][/\ (focus = "primary" /\ bt.is_open /\ bt_last'.op = "open") =>
             /\ bt_last'.ret
             /\ BT_observed(bt', bt_inserted') = BT_observed(bt, bt_inserted)
       /\ (focus = "vehicle_plate" /\ bp.is_open /\ bp_last'.op = "open") =>
             /\ bp_last'.ret
             /\ BP_observed(bp', bp_inserted') = BP_observed(bp, bp_inserted)]_vars

(***************************************************************************)
(* The cache of the B-Tree against its file (BTree.h 166-244, 459-519,     *)
(* 562-582)                                                                *)
(***************************************************************************)
\* every cache entry holds the node the file holds at its offset and is
\* not dirty
BT_cache_coherent(t) ==
    \A i \in 1..Len(t.cache_) :
        /\ IsNodePage(t, t.cache_[i].offset)
        /\ t.cache_[i].node = NodeAt(t, t.cache_[i].offset)
        /\ ~t.cache_[i].dirty

\* the root read through the cache is a leaf without keys and search finds
\* none of the keys
BT_reads_empty(t, keys) ==
    /\ BT_read_node(t, t.metadata_.root_offset, BTreeNode_new).node.key_count = 0
    /\ BTreeNode_is_leaf(BT_read_node(t, t.metadata_.root_offset, BTreeNode_new).node)
    /\ \A key \in keys : ~BT_search(t, key, BTreeValue_new).found

\* C31: between the public operations of one BTree object every cached node
\* is the node the file holds at the same offset and no cache entry is
\* dirty; after a create() that returned true the root read through the
\* cache is an empty leaf and search finds no key.
C31_CacheCoherence ==
    focus = "primary" =>
        /\ BT_cache_coherent(bt)
        /\ (bt_last.op = "create" /\ bt_last.ret) =>
              BT_reads_empty(bt, {KeyAt(n) : n \in KeyBase..(KeyBase + LifeInserts)})

(***************************************************************************)
(* The indexes create_indexes() leaves (IndexManager.h 46-100: create()    *)
(* and then open() on the same object)                                     *)
(***************************************************************************)
\* the facade holds index name open on the stream create() opened
IM_fresh(m, name) ==
    /\ name \in m.held
    /\ m[name].is_open
    /\ ~m[name].readable

\* C32: on an index create_indexes() left open on the stream of create(),
\* the search_by_plate (search_by_email, search_by_username) of a key that
\* directly follows the successful insert of that key with an id finds the
\* key and yields the id.
C32_FreshUsable ==
    [][(/\ focus = "facade"
        /\ im_last.op = "insert" /\ im_last.ret
        /\ im_last'.op = "search" /\ im_last'.calls # im_last.calls
        /\ im_last'.name = im_last.name
        /\ IM_fresh(im, im_last.name)) =>
            /\ im_last'.ret
            /\ IM_search_secondary(im, im_last.name, PlateAt(PlateBase), 0).id = 1
      ]_vars

(***************************************************************************)
(* The open flag of the heap store (DatabaseManager.h 82-231)              *)
(***************************************************************************)
\* C33: after any sequence of create(config), open() and close() calls on
\* one DatabaseManager, is_database_open() is true only while the stream of
\* the store is open; after a create(config) the store reports not-open.
C33_OpenFlag ==
    focus = "heap" =>
        /\ db.is_open_ => db.file_.is_open
        /\ db_last.op = "create" => ~db.is_open_

(***************************************************************************)
(* The trips a read or an update finds (DatabaseManager.h 496-539)         *)
(***************************************************************************)
\* C34: read_trip(id) returns true only if a slot of the trip table holds a
\* live record (trip_id # 0) of that id, for every id, 0 included; and
\* update_trip writes into no free slot.
C34_LiveOnly ==
    [][/\ (focus = "heap" /\ DB_step("read_record") /\ db_last'.table = "trips" /\ db_last'.ret) =>
             DB_live_with(db.file, "trips", db_last'.id) # {}
       /\ (focus = "heap" /\ DB_step("update_record") /\ db_last'.table = "trips") =>
             \A o \in DOMAIN db.file.trips :
                 db'.file.trips[o] # db.file.trips[o] => DB_live(db.file, "trips", o)
      ]_vars

(***************************************************************************)
(* Two worker threads of SDMServer (SDMServer.h 364-399) inside            *)
(* create_driver of the one DatabaseManager (DatabaseManager.h 233-256),   *)
(* on a store of CreateSlots driver slots, all free.  As in read_driver,   *)
(* a step is one call on the stream together with the statements up to the *)
(* next call; nothing in the store orders the steps of the two threads.    *)
(***************************************************************************)
\* driver slots of the store
CreateSlots == 2

\* create_driver calls a worker thread makes
CreateRequests == 1

\* lines 246-253, the slot read into existing: the test of is_active and the
\* next turn of the loop
CR_tested(s, k) ==
    IF s.t[k].driver.is_active = 0
    THEN [s EXCEPT !.t[k].pc = "seekp"]
    ELSE [s EXCEPT !.t[k].pc = "seek", !.t[k].i = @ + 1]

\* line 244: file_.read, which moves the position on
CR_read(d, s, k) ==
    CR_tested([s EXCEPT !.pos = TH_position(d, s, k) + sizeof_DriverProfile,
                        !.pos_by = k, !.pos_op = "read",
                        !.t[k].driver = DB_driver_at(d.file, TH_position(d, s, k)),
                        !.t[k].io = TH_io(d, s, k, "read")],
              k)

\* lines 233-236: the thread enters create_driver(driver); the record
\* carries the thread in total_trips
CR_begin(s, k, id) ==
    [s EXCEPT !.t[k] = [@ EXCEPT !.pc = "seek", !.op = "create_driver", !.id = id,
                                 !.i = 0, !.driver = DriverProfile_new,
                                 !.arg = ThreadDriver(id, k),
                                 !.ret = FALSE, !.io = TH_no_io, !.left = @ - 1]]

CRStep(k, pc) ==
    /\ focus = "creates"
    /\ th.t[k].pc = pc
    /\ UNCHANGED << focus, bt_vars, bp_vars, im_vars, ninserts, db_last >>

\* worker_thread: a request dequeued, process_request on it
CRBegin ==
    \E k \in ThreadIds, id \in ThreadDriverIds :
        /\ CRStep(k, "idle")
        /\ th.t[k].left > 0
        /\ db.is_open_
        /\ th' = CR_begin(th, k, id)
        /\ UNCHANGED db

\* lines 238-243: the test of the loop and file_.seekg; line 255
CRSeekg ==
    \E k \in ThreadIds :
        /\ CRStep(k, "seek")
        /\ th' = TH_seekg(db, th, k)
        /\ UNCHANGED db

CRRead ==
    \E k \in ThreadIds :
        /\ CRStep(k, "read")
        /\ th' = CR_read(db, th, k)
        /\ UNCHANGED db

\* line 248: file_.seekp
CRSeekp ==
    \E k \in ThreadIds :
        /\ CRStep(k, "seekp")
        /\ th' = TH_seekp(db, th, k)
        /\ UNCHANGED db

\* lines 249-251: file_.write, file_.flush and return true
CRWrite ==
    \E k \in ThreadIds :
        /\ CRStep(k, "write")
        /\ th' = TH_write(db, th, k).th
        /\ db' = TH_write(db, th, k).db

\* the store after create(config) and open(): every driver slot free
DB_no_drivers ==
    DB_open(DB_create(DatabaseManager_new, SDMConfig(CreateSlots, 2, 1), TRUE).db).db

InitCreates ==
    /\ focus = "creates"
    /\ bt = BTree_new
    /\ bt_inserted = {}
    /\ bt_last = NoCall
    /\ bp = BPlusTree_new("vehicle_plate")
    /\ bp_inserted = {}
    /\ bp_last = BP_NoCall
    /\ ninserts = 0
    /\ im = IndexManager_new
    /\ im_last = IM_NoCall
    /\ db = DB_no_drivers
    /\ db_last = [DB_NoCall EXCEPT !.config = SDMConfig(CreateSlots, 2, 1)]
    /\ th = [TH_none EXCEPT !.t = [k \in ThreadIds |-> TH_idle(CreateRequests)]]

NextCreates == CRBegin \/ CRSeekg \/ CRRead \/ CRSeekp \/ CRWrite

SpecCreates == InitCreates /\ [][NextCreates]_vars

\* thread k has come back from a create_driver that returned true
CR_created(s, k) ==
    /\ s.t[k].pc = "idle"
    /\ s.t[k].op = "create_driver"
    /\ s.t[k].ret

\* C35: two threads have called create_driver on the same open store
\* concurrently and both calls returned true: the two records are in two
\* distinct slots and both are live in the file.
C35_DistinctSlots ==
    (/\ focus = "creates"
     /\ CR_created(th, 1)
     /\ CR_created(th, 2)
     /\ th.t[1].left = CreateRequests - 1
     /\ th.t[2].left = CreateRequests - 1) =>
        \E o1, o2 \in DOMAIN db.file.drivers :
            /\ o1 # o2
            /\ db.file.drivers[o1] = th.t[1].arg
            /\ db.file.drivers[o2] = th.t[2].arg

(***************************************************************************)
(* CircularQueue<T> (CircularQueue.h 30-165).  Every member function holds *)
(* mtx_ from its first statement to its return, so a call is one step,     *)
(* except where enqueue or dequeue waits on a condition variable: the wait *)
(* releases mtx_, the thread stays blocked until a notify or a spurious    *)
(* wakeup, and it then locks mtx_ again and tests the predicate anew.      *)
(* shutdown() is two steps, the flag set under mtx_ and the two            *)
(* notify_all outside it.  The items are numbered in the order the calls   *)
(* begin; enq and deq are the items in the order their enqueue and their   *)
(* dequeue completed.                                                      *)
(***************************************************************************)
\* capacity of the queue
QueueCapacity == 2

\* enqueue and try_enqueue calls of a behaviour
QueueItems == 3

QueueThreads == {1, 2, 3}

\* CircularQueue(capacity), lines 45-49
CircularQueue_new(capacity) ==
    [buffer_ |-> [i \in 0..(capacity - 1) |-> 0], head_ |-> 0, tail_ |-> 0,
     capacity_ |-> capacity, size_ |-> 0, shutdown_ |-> FALSE]

\* full(), line 145, the test of lines 61 and 79, read too late
Q_full_late(q) == q.size_ > q.capacity_

\* full(), line 145, and the test of lines 61 and 79
Q_full(q) == q.size_ >= q.capacity_

\* lines 68-70 and 84-86
Q_store(q, item) ==
    [q EXCEPT !.buffer_[q.tail_] = item,
              !.tail_ = (q.tail_ + 1) % q.capacity_,
              !.size_ = @ + 1]

\* lines 104-106 and 121-123
Q_take(q) ==
    [q EXCEPT !.head_ = (q.head_ + 1) % q.capacity_, !.size_ = @ - 1]

Q_front(q) == q.buffer_[q.head_]

\* the items the queue holds, the oldest first
RECURSIVE Q_items_from(_, _, _)
Q_items_from(q, i, n) ==
    IF n = 0 THEN << >>
    ELSE << q.buffer_[i] >> \o Q_items_from(q, (i + 1) % q.capacity_, n - 1)

Q_items(q) == Q_items_from(q, q.head_, q.size_)

\* a thread outside every call on the queue
Q_thread ==
    [pc |-> "idle", op |-> "none", cv |-> "none", item |-> 0, ret |-> FALSE,
     threw |-> FALSE, blocked |-> FALSE, sd |-> FALSE]

\* the threads blocked in a wait on the condition variable cv
Q_waiting(s, cv) == {k \in DOMAIN s.t : s.t[k].pc = "wait" /\ s.t[k].cv = cv}

\* the threads notify_one may wake: one of the waiting, 0 where none waits
Q_notify_choices(s, cv) == IF Q_waiting(s, cv) = {} THEN {0} ELSE Q_waiting(s, cv)

\* cv.notify_one(), the thread w woken
Q_notify_one(s, cv, w) ==
    IF w \in Q_waiting(s, cv) THEN [s EXCEPT !.t[w].pc = "woken"] ELSE s

\* cv.notify_all()
Q_notify_all(s, cv) ==
    [s EXCEPT !.t = [k \in DOMAIN s.t |->
                        IF k \in Q_waiting(s, cv) THEN [s.t[k] EXCEPT !.pc = "woken"]
                        ELSE s.t[k]]]

\* the call of thread k returns ret, or throws
Q_return(s, k, ret, threw) ==
    [s EXCEPT !.t[k].pc = "idle", !.t[k].ret = ret, !.t[k].threw = threw,
              !.t[k].sd = s.q.shutdown_]

\* enqueue, lines 63-72
Q_enqueue_rest(s, k, w) ==
    IF s.q.shutdown_
    THEN Q_return(s, k, FALSE, TRUE)
    ELSE Q_notify_one(Q_return([s EXCEPT !.q = Q_store(@, s.t[k].item),
                                         !.enq = Append(@, s.t[k].item)],
                               k, TRUE, FALSE),
                      "not_empty", w)

\* enqueue, lines 60-61: not_full_.wait(lock, predicate)
Q_enqueue_wait(s, k, w) ==
    IF ~Q_full(s.q) \/ s.q.shutdown_
    THEN Q_enqueue_rest(s, k, w)
    ELSE [s EXCEPT !.t[k].pc = "wait", !.t[k].cv = "not_full", !.t[k].blocked = TRUE]

\* thread k enters the call op with the next item
Q_call(s, k, op, item) ==
    [s EXCEPT !.t[k] = [Q_thread EXCEPT !.op = op, !.item = item]]

\* enqueue(item), lines 56-73
Q_enqueue(s, k, w) ==
    Q_enqueue_wait([Q_call(s, k, "enqueue", s.next) EXCEPT !.next = @ + 1], k, w)

\* try_enqueue(item), lines 75-90
Q_try_enqueue(s, k, w) ==
    IF Q_full(s.q) \/ s.q.shutdown_
    THEN Q_return([Q_call(s, k, "try_enqueue", s.next) EXCEPT !.next = @ + 1],
                  k, FALSE, FALSE)
    ELSE Q_notify_one(Q_return([Q_call(s, k, "try_enqueue", s.next)
                                   EXCEPT !.next = @ + 1,
                                          !.q = Q_store(@, s.next),
                                          !.enq = Append(@, s.next)],
                               k, TRUE, FALSE),
                      "not_empty", w)

\* dequeue, lines 99-109
Q_dequeue_rest(s, k, w) ==
    IF s.q.shutdown_ /\ s.q.size_ = 0
    THEN Q_return(s, k, FALSE, TRUE)
    ELSE Q_notify_one(Q_return([s EXCEPT !.q = Q_take(@),
                                         !.deq = Append(@, Q_front(s.q)),
                                         !.t[k].item = Q_front(s.q)],
                               k, TRUE, FALSE),
                      "not_full", w)

\* dequeue, lines 96-97: not_empty_.wait(lock, predicate)
Q_dequeue_wait(s, k, w) ==
    IF s.q.size_ > 0 \/ s.q.shutdown_
    THEN Q_dequeue_rest(s, k, w)
    ELSE [s EXCEPT !.t[k].pc = "wait", !.t[k].cv = "not_empty", !.t[k].blocked = TRUE]

\* dequeue(), lines 92-110
Q_dequeue(s, k, w) == Q_dequeue_wait(Q_call(s, k, "dequeue", 0), k, w)

\* try_dequeue(item), lines 112-127
Q_try_dequeue(s, k, w) ==
    IF s.q.size_ = 0
    THEN Q_return(Q_call(s, k, "try_dequeue", 0), k, FALSE, FALSE)
    ELSE Q_notify_one(Q_return([Q_call(s, k, "try_dequeue", Q_front(s.q))
                                   EXCEPT !.q = Q_take(@),
                                          !.deq = Append(@, Q_front(s.q))],
                               k, TRUE, FALSE),
                      "not_full", w)

\* shutdown(), lines 149-152
Q_shutdown_flag(s, k) ==
    [Q_call(s, k, "shutdown", 0) EXCEPT !.q.shutdown_ = TRUE, !.t[k].pc = "notify"]

\* shutdown() that notifies the waiting dequeues alone
Q_shutdown_notify_not_empty(s, k) ==
    Q_return(Q_notify_all(s, "not_empty"), k, TRUE, FALSE)

\* shutdown(), lines 153-154
Q_shutdown_notify(s, k) ==
    Q_return(Q_notify_all(Q_notify_all(s, "not_empty"), "not_full"), k, TRUE, FALSE)

\* a thread woken from its wait locks mtx_ and tests the predicate again
Q_woken(s, k, w) ==
    IF s.t[k].op = "enqueue" THEN Q_enqueue_wait(s, k, w) ELSE Q_dequeue_wait(s, k, w)

QStep(k, pc) ==
    /\ focus = "queue"
    /\ th.t[k].pc = pc
    /\ UNCHANGED << focus, bt_vars, bp_vars, im_vars, ninserts, db_vars >>

QEnqueue(k) ==
    /\ QStep(k, "idle")
    /\ th.next <= QueueItems
    /\ \E w \in Q_notify_choices(th, "not_empty") : th' = Q_enqueue(th, k, w)

QTryEnqueue(k) ==
    /\ QStep(k, "idle")
    /\ th.next <= QueueItems
    /\ \E w \in Q_notify_choices(th, "not_empty") : th' = Q_try_enqueue(th, k, w)

QDequeue(k) ==
    /\ QStep(k, "idle")
    /\ \E w \in Q_notify_choices(th, "not_full") : th' = Q_dequeue(th, k, w)

QTryDequeue(k) ==
    /\ QStep(k, "idle")
    /\ \E w \in Q_notify_choices(th, "not_full") : th' = Q_try_dequeue(th, k, w)

QShutdown(k) ==
    /\ QStep(k, "idle")
    /\ th' = Q_shutdown_flag(th, k)

QShutdownNotify(k) ==
    /\ QStep(k, "notify")
    /\ th' = Q_shutdown_notify(th, k)

\* the wait of thread k ends without a notify
QSpurious(k) ==
    /\ QStep(k, "wait")
    /\ th' = [th EXCEPT !.t[k].pc = "woken"]

QWoken(k) ==
    /\ QStep(k, "woken")
    /\ \E w \in Q_notify_choices(th, IF th.t[k].op = "enqueue" THEN "not_empty" ELSE "not_full") :
          th' = Q_woken(th, k, w)

InitQueue ==
    /\ focus = "queue"
    /\ bt = BTree_new
    /\ bt_inserted = {}
    /\ bt_last = NoCall
    /\ bp = BPlusTree_new("vehicle_plate")
    /\ bp_inserted = {}
    /\ bp_last = BP_NoCall
    /\ ninserts = 0
    /\ im = IndexManager_new
    /\ im_last = IM_NoCall
    /\ db = DatabaseManager_new
    /\ db_last = DB_NoCall
    /\ th = [q |-> CircularQueue_new(QueueCapacity),
             t |-> [k \in QueueThreads |-> Q_thread],
             enq |-> << >>, deq |-> << >>, next |-> 1]

QEnqueueAny == \E k \in QueueThreads : QEnqueue(k)
QTryEnqueueAny == \E k \in QueueThreads : QTryEnqueue(k)
QDequeueAny == \E k \in QueueThreads : QDequeue(k)
QTryDequeueAny == \E k \in QueueThreads : QTryDequeue(k)
QShutdownAny == \E k \in QueueThreads : QShutdown(k)
QShutdownNotifyAny == \E k \in QueueThreads : QShutdownNotify(k)
QSpuriousAny == \E k \in QueueThreads : QSpurious(k)
QWokenAny == \E k \in QueueThreads : QWoken(k)

NextQueue ==
    \/ QEnqueueAny
    \/ QTryEnqueueAny
    \/ QDequeueAny
    \/ QTryDequeueAny
    \/ QShutdownAny
    \/ QShutdownNotifyAny
    \/ QSpuriousAny
    \/ QWokenAny

SpecQueue == InitQueue /\ [][NextQueue]_vars

\* a thread that has been woken, or is between the two halves of
\* shutdown(), is scheduled and gets mtx_ in the end: every critical section
\* of the queue is finite
SpecQueueFair ==
    /\ SpecQueue
    /\ \A k \in QueueThreads : WF_vars(QWoken(k)) /\ WF_vars(QShutdownNotify(k))

\* a is a prefix of b
Q_prefix(a, b) ==
    /\ Len(a) <= Len(b)
    /\ \A i \in 1..Len(a) : a[i] = b[i]

\* the step is a call of thread k that returns or throws in the same step,
\* or the end of a call of thread k that had waited
Q_completes(k) ==
    /\ th'.t[k].pc = "idle"
    /\ th'.t[k] # th.t[k]

\* C36: whatever the interleaving of enqueue, try_enqueue, dequeue and
\* try_dequeue calls of the threads, the queue holds between 0 and capacity
\* items, the items are dequeued in the order in which their enqueues
\* completed, none is lost and none delivered twice; and try_enqueue on a
\* full queue returns false and leaves the queue as it was.
C36_BoundedFIFO ==
    /\ [](focus = "queue" =>
            /\ th.q.size_ \in 0..th.q.capacity_
            /\ Q_prefix(th.deq, th.enq)
            /\ Q_items(th.q) = SubSeq(th.enq, Len(th.deq) + 1, Len(th.enq)))
    /\ [][\A k \in QueueThreads :
            (/\ focus = "queue"
             /\ Q_completes(k)
             /\ th'.t[k].op = "try_enqueue"
             /\ th.q.size_ >= th.q.capacity_) =>
                /\ ~th'.t[k].ret
                /\ th'.q = th.q
                /\ th'.enq = th.enq
                /\ th'.deq = th.deq
         ]_vars

\* the queue was full and a try_enqueue was turned away, the two items it
\* held have been dequeued, and a dequeue had waited for its item
C36_Witness ==
    /\ focus = "queue"
    /\ ~th.q.shutdown_
    /\ Len(th.deq) >= 2
    /\ th.q.head_ # th.q.tail_ \/ th.q.capacity_ = 2
    /\ \E k1, k2 \in QueueThreads :
          /\ th.t[k1].pc = "idle" /\ th.t[k1].op = "try_enqueue" /\ ~th.t[k1].ret
          /\ th.t[k2].pc = "idle" /\ th.t[k2].op = "dequeue" /\ th.t[k2].blocked
          /\ th.t[k2].ret

\* thread k is blocked in enqueue or dequeue
Q_blocked(s, k) == s.t[k].pc \in {"wait", "woken"}

\* C37: once shutdown() has set the flag, no thread stays blocked in enqueue
\* or dequeue for ever; an enqueue that was blocked, or is called later,
\* throws and stores nothing; a dequeue returns the oldest item still queued
\* and throws only when the queue is empty.
C37_ShutdownLiveness ==
    /\ \A k \in QueueThreads :
          (focus = "queue" /\ th.q.shutdown_ /\ Q_blocked(th, k)) ~> ~Q_blocked(th, k)
    /\ [][\A k \in QueueThreads :
            (focus = "queue" /\ th.q.shutdown_ /\ Q_completes(k)) =>
                /\ th'.t[k].op = "enqueue" =>
                      /\ th'.t[k].threw
                      /\ th'.q = th.q
                      /\ th'.enq = th.enq
                /\ th'.t[k].op = "dequeue" =>
                      IF th.q.size_ = 0
                      THEN th'.t[k].threw /\ th'.q = th.q
                      ELSE /\ ~th'.t[k].threw
                           /\ th'.t[k].item = Head(Q_items(th.q))
                           /\ Q_items(th'.q) = Tail(Q_items(th.q))
                           /\ th'.deq = Append(th.deq, Head(Q_items(th.q)))
         ]_vars

\* after shutdown() an enqueue that was blocked on the full queue has
\* thrown, a dequeue has returned an item that was still queued, and a
\* dequeue on the queue then empty has thrown
C37_Witness ==
    /\ focus = "queue"
    /\ th.q.shutdown_
    /\ th.q.size_ = 0
    /\ \E k1, k2, k3 \in QueueThreads :
          /\ th.t[k1].pc = "idle" /\ th.t[k1].op = "enqueue" /\ th.t[k1].blocked
          /\ th.t[k1].threw
          /\ th.t[k2].pc = "idle" /\ th.t[k2].op = "dequeue" /\ th.t[k2].sd
          /\ th.t[k2].ret /\ th.t[k2].item # 0
          /\ th.t[k3].pc = "idle" /\ th.t[k3].op = "dequeue" /\ th.t[k3].sd
          /\ th.t[k3].threw

(***************************************************************************)
(* SDMServer after start() (SDMServer.h 194-399): the listener thread, the *)
(* worker threads and a caller of stop().  The queue is used through       *)
(* try_enqueue and try_dequeue alone, so no thread waits on it.  The       *)
(* connections are numbered in the order accept returns them.              *)
(***************************************************************************)
\* config.queue_capacity
ServerQueueCapacity == 1

\* connections a behaviour accepts
ServerRequests == 3

\* config.worker_threads = 2
ServerWorkers == {1, 2}

\* a connection accept has not returned yet
SV_request ==
    [status |-> "none", processed |-> 0, closed |-> FALSE, sent503 |-> FALSE, by |-> 0]

\* the server when start() returns, lines 237-246
SV_started ==
    [q |-> CircularQueue_new(ServerQueueCapacity), running_ |-> TRUE,
     server_socket_ |-> TRUE,
     listener |-> [pc |-> "top", request |-> 0],
     w |-> [k \in ServerWorkers |-> [pc |-> "top", request |-> 0]],
     req |-> [r \in 1..ServerRequests |-> SV_request],
     next |-> 1, rejected_requests_ |-> 0, total_requests_ |-> 0, stop |-> "none"]

\* line 314, while (running_)
SV_listener_top(s) ==
    [s EXCEPT !.listener.pc = IF s.running_ THEN "accept" ELSE "exited"]

\* lines 317-349: accept returns the connection s.next; recv delivers a
\* request or nothing
SV_accept(s, has_data) ==
    IF has_data
    THEN [s EXCEPT !.listener = [pc |-> "enqueue", request |-> s.next],
                   !.req[s.next].status = "accepted", !.next = @ + 1]
    ELSE [s EXCEPT !.listener.pc = "top",
                   !.req[s.next].status = "empty", !.req[s.next].closed = TRUE,
                   !.next = @ + 1]

\* lines 321-328: accept fails on the closed socket
SV_accept_failed(s) == [s EXCEPT !.listener.pc = "top"]

\* lines 351-360
SV_enqueue(s) ==
    IF Q_full(s.q) \/ s.q.shutdown_
    THEN [s EXCEPT !.rejected_requests_ = @ + 1, !.total_requests_ = @ + 1,
                   !.req[s.listener.request] =
                       [@ EXCEPT !.status = "rejected", !.sent503 = TRUE, !.closed = TRUE],
                   !.listener.pc = "top"]
    ELSE [s EXCEPT !.q = Q_store(@, s.listener.request), !.total_requests_ = @ + 1,
                   !.req[s.listener.request].status = "queued",
                   !.listener.pc = "top"]

\* line 366, while (running_)
SV_worker_top(s, k) ==
    [s EXCEPT !.w[k].pc = IF s.running_ THEN "dequeue" ELSE "exited"]

\* lines 368-377: try_dequeue, and the sleep where it returns false
SV_worker_dequeue(s, k) ==
    IF s.q.size_ = 0
    THEN [s EXCEPT !.w[k].pc = "top"]
    ELSE [s EXCEPT !.q = Q_take(@),
                   !.w[k] = [pc |-> "process", request |-> Q_front(s.q)],
                   !.req[Q_front(s.q)] = [@ EXCEPT !.status = "processing", !.by = k]]

\* process_request, lines 381-398
SV_process_request(s, k) ==
    [s EXCEPT !.req[s.w[k].request] =
                  [@ EXCEPT !.status = "done", !.processed = @ + 1, !.closed = TRUE],
              !.w[k].pc = "top"]

\* stop(), lines 266-278
SV_stop(s) ==
    IF ~s.running_ THEN s
    ELSE [s EXCEPT !.running_ = FALSE, !.server_socket_ = FALSE, !.stop = "joining"]

\* every thread stop() joins has returned
SV_all_exited(s) ==
    /\ s.listener.pc = "exited"
    /\ \A k \in ServerWorkers : s.w[k].pc = "exited"

\* stop(), lines 280-297
SV_joined(s) == [s EXCEPT !.stop = "stopped"]

SVStep ==
    /\ focus = "server"
    /\ UNCHANGED << focus, bt_vars, bp_vars, im_vars, ninserts, db_vars >>

SVListenerTop ==
    /\ SVStep
    /\ th.listener.pc = "top"
    /\ th' = SV_listener_top(th)

SVAccept ==
    /\ SVStep
    /\ th.listener.pc = "accept"
    /\ th.server_socket_
    /\ th.next <= ServerRequests
    /\ \E has_data \in BOOLEAN : th' = SV_accept(th, has_data)

SVAcceptFailed ==
    /\ SVStep
    /\ th.listener.pc = "accept"
    /\ ~th.server_socket_
    /\ th' = SV_accept_failed(th)

SVEnqueue ==
    /\ SVStep
    /\ th.listener.pc = "enqueue"
    /\ th' = SV_enqueue(th)

SVWorkerTop(k) ==
    /\ SVStep
    /\ th.w[k].pc = "top"
    /\ th' = SV_worker_top(th, k)

SVWorkerDequeue(k) ==
    /\ SVStep
    /\ th.w[k].pc = "dequeue"
    /\ th' = SV_worker_dequeue(th, k)

SVProcessRequest(k) ==
    /\ SVStep
    /\ th.w[k].pc = "process"
    /\ th' = SV_process_request(th, k)

SVStop ==
    /\ SVStep
    /\ th.stop = "none"
    /\ th.running_
    /\ th' = SV_stop(th)

SVJoined ==
    /\ SVStep
    /\ th.stop = "joining"
    /\ SV_all_exited(th)
    /\ th' = SV_joined(th)

InitServer ==
    /\ focus = "server"
    /\ bt = BTree_new
    /\ bt_inserted = {}
    /\ bt_last = NoCall
    /\ bp = BPlusTree_new("vehicle_plate")
    /\ bp_inserted = {}
    /\ bp_last = BP_NoCall
    /\ ninserts = 0
    /\ im = IndexManager_new
    /\ im_last = IM_NoCall
    /\ db = DatabaseManager_new
    /\ db_last = DB_NoCall
    /\ th = SV_started

SVWorkerTopAny == \E k \in ServerWorkers : SVWorkerTop(k)
SVWorkerDequeueAny == \E k \in ServerWorkers : SVWorkerDequeue(k)
SVProcessRequestAny == \E k \in ServerWorkers : SVProcessRequest(k)

NextServer ==
    \/ SVListenerTop
    \/ SVAccept
    \/ SVAcceptFailed
    \/ SVEnqueue
    \/ SVWorkerTopAny
    \/ SVWorkerDequeueAny
    \/ SVProcessRequestAny
    \/ SVStop
    \/ SVJoined

SpecServer == InitServer /\ [][NextServer]_vars

\* the listener and the workers are threads the scheduler runs: a thread
\* that can take its next step takes it in the end; when a connection
\* arrives and when stop() is called is up to the environment
SpecServerFair ==
    /\ SpecServer
    /\ WF_vars(SVListenerTop) /\ WF_vars(SVAcceptFailed) /\ WF_vars(SVEnqueue)
    /\ WF_vars(SVJoined)
    /\ \A k \in ServerWorkers :
          WF_vars(SVWorkerTop(k)) /\ WF_vars(SVWorkerDequeue(k))
              /\ WF_vars(SVProcessRequest(k))

\* the requests of the status
SV_with(s, status) == {r \in DOMAIN s.req : s.req[r].status = status}

\* what C38 says of a state: a rejected request got the 503, has its socket
\* closed, was counted and is never processed; a request is processed at
\* most once, by one worker, and a processed request has its socket closed
SV_handled_once(s) ==
    /\ s.rejected_requests_ = Cardinality(SV_with(s, "rejected"))
    /\ \A r \in DOMAIN s.req :
          /\ s.req[r].status = "rejected" =>
                s.req[r].sent503 /\ s.req[r].closed /\ s.req[r].processed = 0
          /\ s.req[r].processed <= 1
          /\ s.req[r].status = "done" => s.req[r].processed = 1 /\ s.req[r].closed
          /\ s.req[r].status = "processing" =>
                Cardinality({k \in ServerWorkers :
                                s.w[k].pc = "process" /\ s.w[k].request = r}) = 1

\* the safety half of C38: SV_handled_once in every state, and the
\* try_enqueue step of the listener leaves its request rejected or queued
C38_Safety ==
    /\ [](focus = "server" => SV_handled_once(th))
    /\ [][(focus = "server" /\ th.listener.pc = "enqueue" /\ th'.listener.pc # "enqueue") =>
            th'.req[th.listener.request].status \in {"rejected", "queued"}]_vars

\* C38: every request the listener accepts is rejected at once (503, socket
\* closed, counted, never processed) or enqueued, and every enqueued request
\* is in the end dequeued by one worker, processed once and its socket
\* closed, the requests still queued when stop() is called included: when
\* stop() has joined the workers, which alone dequeue, none is left queued.
C38_RequestsHandled ==
    /\ [](focus = "server" => SV_handled_once(th))
    /\ [][(focus = "server" /\ th.listener.pc = "enqueue" /\ th'.listener.pc # "enqueue") =>
            th'.req[th.listener.request].status \in {"rejected", "queued"}]_vars
    /\ \A r \in 1..ServerRequests :
          (focus = "server" /\ th.req[r].status = "queued") ~>
              (th.req[r].status = "done" /\ th.req[r].closed)
    /\ [](focus = "server" /\ th.stop = "stopped" => SV_with(th, "queued") = {})

(***************************************************************************)
(* HashTable<K, V> and LRUCache<K, V> (HashTable.h 12-322) with integer    *)
(* keys, for which hash<K> is the identity.  A bucket is the chain of its  *)
(* nodes, the first node first.  The doubly linked list of the cache,      *)
(* between the sentinels head_ and tail_, is the sequence of its nodes,    *)
(* the most recently used first; a node is named by the address new gave   *)
(* it, the lowest one free.                                                *)
(***************************************************************************)
\* capacity of the LRUCache
LRUCapacity == 2

\* the keys are 1..LRUKeys, the values 1..LRUValues
LRUKeys == 3
LRUValues == 2

\* initial_capacity of the HashTable, 1024 in the source
HashCapacity == 2

\* HashTable(initial_capacity, load_factor), lines 59-63
HashTable_new(capacity) ==
    [buckets_ |-> [i \in 0..(capacity - 1) |-> << >>], capacity_ |-> capacity, size_ |-> 0]

\* compute_hash, lines 32-35
HT_compute_hash(h, key) == key % h.capacity_

\* the places of key in a chain
HT_at(chain, key) == {i \in 1..Len(chain) : chain[i].key = key}

\* get, lines 95-111
HT_get(h, key) ==
    IF HT_at(h.buckets_[HT_compute_hash(h, key)], key) = {}
    THEN [found |-> FALSE, value |-> 0]
    ELSE [found |-> TRUE,
          value |-> h.buckets_[HT_compute_hash(h, key)]
                        [CHOOSE i \in HT_at(h.buckets_[HT_compute_hash(h, key)], key) : TRUE].value]

\* the nodes of the buckets from i on, in the order rehash visits them
RECURSIVE HT_nodes_from(_, _)
HT_nodes_from(h, i) ==
    IF i >= h.capacity_ THEN << >> ELSE h.buckets_[i] \o HT_nodes_from(h, i + 1)

RECURSIVE HT_insert(_, _, _)
RECURSIVE HT_insert_all(_, _)
\* rehash, lines 37-56: the nodes inserted one by one
HT_insert_all(h, nodes) ==
    IF nodes = << >> THEN h
    ELSE HT_insert_all(HT_insert(h, nodes[1].key, nodes[1].value), Tail(nodes))

\* rehash, lines 37-56
HT_rehash(h) ==
    HT_insert_all(HashTable_new(h.capacity_ * 2), HT_nodes_from(h, 0))

\* insert, lines 88-91: the load factor 0.75
HT_grown(h) == IF 4 * h.size_ > 3 * h.capacity_ THEN HT_rehash(h) ELSE h

\* insert, lines 70-92
HT_insert(h, key, value) ==
    IF HT_at(h.buckets_[HT_compute_hash(h, key)], key) # {}
    THEN [h EXCEPT !.buckets_[HT_compute_hash(h, key)] =
                       [i \in 1..Len(@) |-> IF @[i].key = key
                                            THEN [@[i] EXCEPT !.value = value] ELSE @[i]]]
    ELSE HT_grown([h EXCEPT !.buckets_[HT_compute_hash(h, key)] =
                                << [key |-> key, value |-> value] >> \o @,
                            !.size_ = @ + 1])

\* a sequence without the elements that fail keep
RECURSIVE SeqWithout(_, _)
SeqWithout(seq, x) ==
    IF seq = << >> THEN << >>
    ELSE IF seq[1] = x THEN SeqWithout(Tail(seq), x)
    ELSE << seq[1] >> \o SeqWithout(Tail(seq), x)

RECURSIVE HT_chain_without(_, _)
HT_chain_without(chain, key) ==
    IF chain = << >> THEN << >>
    ELSE IF chain[1].key = key THEN Tail(chain)
    ELSE << chain[1] >> \o HT_chain_without(Tail(chain), key)

\* remove, lines 119-147
HT_remove(h, key) ==
    IF HT_at(h.buckets_[HT_compute_hash(h, key)], key) = {} THEN h
    ELSE [h EXCEPT !.buckets_[HT_compute_hash(h, key)] = HT_chain_without(@, key),
                   !.size_ = @ - 1]

\* clear, lines 149-163
HT_clear(h) ==
    [h EXCEPT !.buckets_ = [i \in 0..(h.capacity_ - 1) |-> << >>], !.size_ = 0]

\* LRUCache(capacity), lines 235-241
LRUCache_new(capacity) ==
    [cache_ |-> HashTable_new(HashCapacity), list |-> << >>,
     nodes |-> [a \in {} |-> 0], capacity_ |-> capacity, size_ |-> 0]

\* the address new Node returns
LRU_new_node(c) == CHOOSE a \in 1..(Cardinality(DOMAIN c.nodes) + 1) : a \notin DOMAIN c.nodes

\* delete node
LRU_delete(nodes, a) == [b \in (DOMAIN nodes) \ {a} |-> nodes[b]]

\* move_to_head, lines 208-212
LRU_move_to_head(c, a) == [c EXCEPT !.list = << a >> \o SeqWithout(@, a)]

\* get that leaves the list as it is
LRU_get_found_unmoved(c, a) ==
    [ret |-> TRUE, value |-> c.nodes[a].value, c |-> c]

\* get, lines 262-264
LRU_get_found(c, a) ==
    [ret |-> TRUE, value |-> c.nodes[a].value, c |-> LRU_move_to_head(c, a)]

\* get, lines 254-265
LRU_get(c, key) ==
    IF ~HT_get(c.cache_, key).found
    THEN [ret |-> FALSE, value |-> 0, c |-> c]
    ELSE LRU_get_found(c, HT_get(c.cache_, key).value)

\* put, lines 282-288: the tail node removed
LRU_evict(c, a) ==
    [c EXCEPT !.list = SeqWithout(@, a),
              !.cache_ = HT_remove(@, c.nodes[a].key),
              !.nodes = LRU_delete(@, a),
              !.size_ = @ - 1]

\* put, lines 282-288
LRU_put_evict(c) ==
    IF c.size_ > c.capacity_ THEN LRU_evict(c, c.list[Len(c.list)]) ELSE c

\* put, lines 277-280
LRU_put_new(c, key, value, a) ==
    LRU_put_evict([c EXCEPT !.nodes = (a :> [key |-> key, value |-> value]) @@ @,
                            !.cache_ = HT_insert(@, key, a),
                            !.list = << a >> \o @,
                            !.size_ = @ + 1])

\* put, lines 267-289
LRU_put(c, key, value) ==
    IF HT_get(c.cache_, key).found
    THEN LRU_move_to_head([c EXCEPT !.nodes[HT_get(c.cache_, key).value].value = value],
                          HT_get(c.cache_, key).value)
    ELSE LRU_put_new(c, key, value, LRU_new_node(c))

\* remove, lines 291-301
LRU_remove(c, key) ==
    IF HT_get(c.cache_, key).found
    THEN [c EXCEPT !.list = SeqWithout(@, HT_get(c.cache_, key).value),
                   !.cache_ = HT_remove(@, key),
                   !.nodes = LRU_delete(@, HT_get(c.cache_, key).value),
                   !.size_ = @ - 1]
    ELSE c

\* clear, lines 305-318
LRU_clear(c) ==
    [c EXCEPT !.list = << >>, !.nodes = [a \in {} |-> 0],
              !.cache_ = HT_clear(@), !.size_ = 0]

\* the keys the cache holds: those of the nodes of its list
LRU_keys(c) == {c.nodes[c.list[i]].key : i \in 1..Len(c.list)}

\* the keys in the order of their last access, the latest first, after an
\* access to key
LRU_touched(touched, key) == << key >> \o SeqWithout(touched, key)

LRU_NoCall == [op |-> "none", key |-> 0, ret |-> FALSE, value |-> 0,
               prev |-> "none", prev_key |-> 0, prev_ret |-> FALSE]

LRUCall(op, key, ret, value) ==
    [op |-> op, key |-> key, ret |-> ret, value |-> value,
     prev |-> th.last.op, prev_key |-> th.last.key, prev_ret |-> th.last.ret]

LRUStep ==
    /\ focus = "lru"
    /\ UNCHANGED << focus, bt_vars, bp_vars, im_vars, ninserts, db_vars >>

LRUGet ==
    \E key \in 1..LRUKeys :
        /\ LRUStep
        /\ th' = [lru |-> LRU_get(th.lru, key).c,
                  touched |-> IF LRU_get(th.lru, key).ret
                              THEN LRU_touched(th.touched, key) ELSE th.touched,
                  last |-> LRUCall("get", key, LRU_get(th.lru, key).ret,
                                   LRU_get(th.lru, key).value)]

LRUPut ==
    \E key \in 1..LRUKeys, value \in 1..LRUValues :
        /\ LRUStep
        /\ th' = [lru |-> LRU_put(th.lru, key, value),
                  touched |-> LRU_touched(th.touched, key),
                  last |-> LRUCall("put", key, TRUE, value)]

LRURemove ==
    \E key \in 1..LRUKeys :
        /\ LRUStep
        /\ th' = [lru |-> LRU_remove(th.lru, key),
                  touched |-> th.touched,
                  last |-> LRUCall("remove", key, TRUE, 0)]

LRUClear ==
    /\ LRUStep
    /\ th' = [lru |-> LRU_clear(th.lru),
              touched |-> th.touched,
              last |-> LRUCall("clear", 0, TRUE, 0)]

InitLRU ==
    /\ focus = "lru"
    /\ bt = BTree_new
    /\ bt_inserted = {}
    /\ bt_last = NoCall
    /\ bp = BPlusTree_new("vehicle_plate")
    /\ bp_inserted = {}
    /\ bp_last = BP_NoCall
    /\ ninserts = 0
    /\ im = IndexManager_new
    /\ im_last = IM_NoCall
    /\ db = DatabaseManager_new
    /\ db_last = DB_NoCall
    /\ th = [lru |-> LRUCache_new(LRUCapacity), touched |-> << >>, last |-> LRU_NoCall]

NextLRU == LRUGet \/ LRUPut \/ LRURemove \/ LRUClear

SpecLRU == InitLRU /\ [][NextLRU]_vars

\* the place of key in the order of last access
LRU_age(touched, key) == CHOOSE i \in 1..Len(touched) : touched[i] = key

\* the key among keys that was accessed least recently
LRU_least_recent(keys, touched) ==
    CHOOSE k \in keys : \A j \in keys : LRU_age(touched, j) <= LRU_age(touched, k)

\* C39: after any sequence of get, put, remove and clear calls the cache
\* holds at most capacity entries and its size is the number of distinct
\* keys it holds; a put of a new key into a full cache evicts exactly the
\* key accessed least recently, a successful get and a put of an existing
\* key being accesses.
C39_LRUEviction ==
    /\ [](focus = "lru" =>
            /\ th.lru.size_ <= th.lru.capacity_
            /\ th.lru.size_ = Cardinality(LRU_keys(th.lru))
            /\ th.lru.size_ = Len(th.lru.list)
            /\ th.lru.size_ = th.lru.cache_.size_
            /\ \A k \in 1..LRUKeys : HT_get(th.lru.cache_, k).found <=> k \in LRU_keys(th.lru))
    /\ [][(/\ focus = "lru"
           /\ th'.last.op = "put"
           /\ th.lru.size_ = th.lru.capacity_
           /\ th'.last.key \notin LRU_keys(th.lru)) =>
              LRU_keys(th'.lru) =
                  (LRU_keys(th.lru) \ {LRU_least_recent(LRU_keys(th.lru), th.touched)})
                      \cup {th'.last.key}
         ]_vars

\* the put of a new key into the full cache, straight after a successful
\* get of another key, has evicted the key accessed least recently, the hash
\* table having grown: the cache holds the new key and the key of the get
C39_Witness ==
    /\ focus = "lru"
    /\ th.last.op = "put"
    /\ th.last.prev = "get" /\ th.last.prev_ret
    /\ th.last.prev_key # th.last.key
    /\ th.lru.size_ = th.lru.capacity_
    /\ {th.last.key, th.last.prev_key} \subseteq LRU_keys(th.lru)
    /\ Len(th.touched) > th.lru.capacity_
    /\ th.touched[Len(th.touched)] \notin LRU_keys(th.lru)
    /\ th.lru.cache_.capacity_ > HashCapacity

(***************************************************************************)
(* VehicleManager::add_vehicle (VehicleManager.h 175-220) on the store and *)
(* the indexes SDMServer::initialize has set up, over restarts of the      *)
(* server.  bp_inserted is the sequence of the plates of the add_vehicle   *)
(* calls that returned an id; db_last.record is the plate of the call.     *)
(***************************************************************************)
\* the history of an add_vehicle or a restart
PlatesCall(op, id, plate) ==
    /\ focus = "plates"
    /\ ninserts < ProcessCalls
    /\ ninserts' = ninserts + 1
    /\ db_last' = [DB_NoCall EXCEPT !.op = op, !.prev = db_last.op, !.id = id,
                                    !.ret = id # 0, !.config = ProcessConfig,
                                    !.record = plate, !.calls = ninserts + 1]
    /\ bp_inserted' = IF id # 0 THEN Append(bp_inserted, plate) ELSE bp_inserted
    /\ UNCHANGED << focus, bt_vars, bp, bp_last, im_last >>

PlatesDone(r, op, plate) ==
    /\ db' = r.db
    /\ im' = r.im
    /\ th' = r.th
    /\ PlatesCall(op, r.ret, plate)

PLAddVehicle ==
    \E plate \in ProcessPlates :
        PlatesDone(VM_add_vehicle(db, im, th, plate, 1, ninserts + 1), "add_vehicle", plate)

\* the server is stopped and started again
PLRestart ==
    /\ db' = SDM_initialize_db(DB_restart(db), ProcessConfig).db
    /\ im' = SDM_initialize_indexes(IM_restart(im)).im
    /\ th' = SDM_new_process(th)
    /\ PlatesCall("restart", 0, << >>)

\* the first process on a machine without store and index files, after
\* SDMServer::initialize
InitPlates ==
    /\ focus = "plates"
    /\ bt = BTree_new
    /\ bt_inserted = {}
    /\ bt_last = NoCall
    /\ bp = BPlusTree_new("vehicle_plate")
    /\ bp_inserted = << >>
    /\ bp_last = BP_NoCall
    /\ ninserts = 0
    /\ im = SDM_initialize_indexes(IndexManager_new).im
    /\ im_last = IM_NoCall
    /\ db = SDM_initialize_db(DatabaseManager_new, ProcessConfig).db
    /\ db_last = [DB_NoCall EXCEPT !.config = ProcessConfig]
    /\ th = TH_none

NextPlates == PLAddVehicle \/ PLRestart

SpecPlates == InitPlates /\ [][NextPlates]_vars

\* the plates of seq, each once
SeqRange(seq) == {seq[i] : i \in 1..Len(seq)}

\* C40: add_vehicle with a license plate that an earlier successful
\* add_vehicle registered returns 0, creates no heap record and inserts no
\* index entry; so no plate is registered by two successful add_vehicle
\* calls.
C40_PlateUnique ==
    /\ [](focus = "plates" => Cardinality(SeqRange(bp_inserted)) = Len(bp_inserted))
    /\ [][(/\ focus = "plates"
           /\ PM_step("add_vehicle")
           /\ db_last'.record \in SeqRange(bp_inserted)) =>
              /\ db_last'.id = 0
              /\ db'.file = db.file
              /\ \A name \in IndexNames \cap im.held :
                    IM_contents(im', name) = IM_contents(im, name)
         ]_vars

====
